---- MODULE Spec2Model ----
(***************************************************************************)
(* Verification model of the tempo playlist builder (src/unnamed/part_002, *)
(* the rolling-window / cancellation-aware version of the application).    *)
(*                                                                         *)
(* The application is one JavaScript event loop.  An action of this model  *)
(* is one run-to-completion step of that loop: the synchronous code from   *)
(* one resumption (a call, a network response, a timer) up to the next     *)
(* await, together with the promise reactions (.finally callbacks, await   *)
(* continuations) that the same microtask drain runs.                      *)
(*                                                                         *)
(* Three specifications share the module:                                  *)
(*   SchedSpec  fetchTemposForTracksWithGemini, the rolling scheduler      *)
(*   HttpSpec   spGet / spPost / refreshSpotifyToken                       *)
(*   ScanSpec   findMatchingSongs, the scan session                        *)
(***************************************************************************)
EXTENDS Integers, Sequences, FiniteSets, TLC

\* ------------------------------------------------------------------------
\* Bounds of the model
\* ------------------------------------------------------------------------

\* The concurrency cap of the scheduler.  The source fixes it at 30
\* (part_002:426); the model checks the same code for a small cap, so that
\* every order of settling is enumerated.
maxConcurrent == 2

\* Input lengths of the scheduler: 0 .. more than twice the cap.
MaxTracks == 2 * maxConcurrent + 2

\* Tempo values the oracle may answer with (non-null results).
BpmValues == {78, 100}

\* The null result of getTrackBPMWithGemini, and a non-null result b.
Null == <<>>
Bpm(b) == <<b>>
Outcomes == {Null} \cup {Bpm(b) : b \in BpmValues}

\* What a call of getTrackBPMWithGemini (part_002:56-420) can return at the
\* moment it settles.  Every tier checks the abort signal right after its
\* network call and throws inside the tier's own try block, so the throw is
\* caught there and the remaining tiers fail the same way: a call that
\* settles while the signal is raised returns null.
ResolveOutcomes(ab) == IF ab THEN {Null} ELSE Outcomes

VARIABLES
  \* --- fetchTemposForTracksWithGemini -----------------------------------
  tracks,          \* the input sequence (track ids)
  currentIndex,    \* number of items started so far (index of the next one)
  activePromises,  \* the Set of promises (by item position) not yet deleted
  refilling,       \* promises whose .finally starts the next item
  opState,         \* per position: "unstarted" | "pending" | "settled"
  opResult,        \* per position: what processTrack's getTrackBPM returned
  tempos,          \* the result map, id -> bpm
  completed,       \* the completed counter
  schedPc,         \* "idle" | "waiting" (await Promise.race) | "returned"
  aborted,         \* abortSignal.aborted
  \* --- spGet / spPost / refreshSpotifyToken ------------------------------
  accessToken,     \* the accessToken state (tokens are numbered as issued)
  req,             \* per original request: its call of spGet / spPost
  refreshCalls,    \* calls issued to the token endpoint so far
  concurrent401,   \* a 401 arrived while another request rejected before it
                   \* was still in flight
  me,              \* a user profile is loaded (the me state is not null)
  \* --- findMatchingSongs: React state -----------------------------------
  playlistCreationStep,  \* "select" | "scanning" | "review" | "creating" | "complete"
  scanningPhase,         \* "primary" | "secondary" | "complete"
  scannedTracks,         \* the selection shown while scanning
  totalScannedDuration,  \* the duration shown while scanning
  finalTrackSelection,   \* the selection handed to review
  finalAliased,          \* finalTrackSelection is the selectedTracks array itself
  includeSaved,          \* the "include saved tracks" setting
  \* --- findMatchingSongs: the locals of the running session --------------
  scanPc,            \* where the async body of findMatchingSongs is suspended
  batchStart,        \* the batch loop's batchStart
  loader,            \* per playlist: its pagination loop
  seenTrackIds,      \* ids already submitted
  resolving,         \* per id: unsettled processTrackImmediately calls
  selectedTracks,    \* the selection
  currentDurationMs, \* the accumulated duration
  savedItems,        \* getAllSavedTracks: items
  savedPages,        \* getAllSavedTracks: pages requested so far
  savedMore,         \* getAllSavedTracks: more
  \* --- findMatchingSongs: the locals of the session before ---------------
  earlier,           \* its selection, its duration and its unsettled
                     \* processTrackImmediately calls
  \* --- getTrackBPMWithGemini: one call -----------------------------------
  gemini,            \* where the call is suspended, and what it did so far
  geminiLogs,        \* the entries passed to addGeminiLog, latest first
  geminiLiveStatus,  \* the song's entry of the live status map
  consoleErrors,     \* the console.error lines of the call
  observers,         \* which of addGeminiLog, updateLiveStatus the call was given
  geminiBare,        \* the same call given neither callback: its locals
  \* --- the tempo match --------------------------------------------------
  tempoRange,        \* the tempoRange state, [min, max]
  matchTempos,       \* the tempos map the match was last applied to
  filtered,          \* what filterTracksByTempo returned for it
  inlineMatched,     \* what the inline check of processTrackForSelection accepted
  \* --- findMatchingSongs / createPlaylistFromSelection: outcome ---------
  scanOutcome,       \* how the session ended: "none" | "review" | "no-matches" | "error"
  authFailure,       \* a request of the session failed with "Refresh failed"
  creation,          \* createPlaylistFromSelection: where it is suspended
  \* --- pagination on its own ---------------------------------------------
  plItems,           \* the raw items of one playlist, as the catalog holds them
  pl,                \* the pagination loop over them (lines 1278-1316)
  numCollections,    \* the number of playlists the user has
  lp                 \* loadPlaylists

schedVars == <<tracks, currentIndex, activePromises, refilling, opState,
               opResult, tempos, completed, schedPc>>

httpVars == <<accessToken, req, refreshCalls, concurrent401, me>>

uiVars == <<playlistCreationStep, scanningPhase, scannedTracks,
            totalScannedDuration, finalTrackSelection, finalAliased, includeSaved>>

sessionVars == <<scanPc, batchStart, loader, seenTrackIds, resolving,
                 selectedTracks, currentDurationMs, savedItems, savedPages,
                 savedMore>>

scanVars == <<uiVars, sessionVars>>

oracleVars == <<gemini, geminiLogs, geminiLiveStatus, consoleErrors, observers,
                geminiBare>>

matchVars == <<tempoRange, matchTempos, filtered, inlineMatched>>

flowVars == <<scanOutcome, authFailure, creation>>

pagingVars == <<plItems, pl, numCollections, lp>>

vars == <<schedVars, aborted, httpVars, scanVars, oracleVars, matchVars,
          flowVars, pagingVars, earlier>>

\* ------------------------------------------------------------------------
\* Helpers
\* ------------------------------------------------------------------------
Min(a, b) == IF a < b THEN a ELSE b

IdSeq(n) == [i \in 1..n |-> i]

\* tempos[id] = bpm
PutTempoByCompletion(m, id, b) ==
  [k \in (DOMAIN m) \cup {completed + 1} |-> IF k = completed + 1 THEN b ELSE m[k]]

PutTempo(m, id, b) == [k \in (DOMAIN m) \cup {id} |-> IF k = id THEN b ELSE m[k]]

\* started-but-unsettled per-item operations
Pending == {i \in 1..Len(tracks) : opState[i] = "pending"}

\* ------------------------------------------------------------------------
\* fetchTemposForTracksWithGemini (part_002:422-491)
\* ------------------------------------------------------------------------

SchedIdle ==
  /\ tracks = <<>>
  /\ currentIndex = 0
  /\ activePromises = {}
  /\ refilling = {}
  /\ opState = <<>>
  /\ opResult = <<>>
  /\ tempos = <<>>
  /\ completed = 0
  /\ schedPc = "idle"

\* The initial batch loop (lines 459-482): how many items it starts.
\* while (currentIndex < tracks.length && activePromises.size < maxConcurrent)
\*   { if (aborted) break; start }
InitialBatchOffByOne(n) == IF aborted THEN 0 ELSE Min(n, maxConcurrent + 1)

InitialBatch(n) == IF aborted THEN 0 ELSE Min(n, maxConcurrent)

\* The wait loop's condition (line 485), evaluated on a given active set:
\* the function goes on waiting, otherwise it returns.
KeepsWaitingUntilAbort(active, ab) == ~ab

KeepsWaiting(active, ab) == active # {} /\ ~ab

\* The call: line 423 (empty input returns at once), the initial batch and
\* the first evaluation of the wait loop.  All of it is synchronous.
FetchTemposCall(input) ==
  /\ schedPc = "idle"
  /\ LET n == Len(input)
         k == InitialBatch(n)
     IN /\ tracks' = input
        /\ currentIndex' = k
        /\ activePromises' = 1..k
        /\ refilling' = 1..k
        /\ opState' = [i \in 1..n |-> IF i <= k THEN "pending" ELSE "unstarted"]
        /\ opResult' = [i \in 1..n |-> Null]
        /\ tempos' = <<>>
        /\ completed' = 0
        /\ schedPc' = IF KeepsWaiting(1..k, aborted) THEN "waiting" ELSE "returned"

\* The .finally callback of promise i (lines 469-481 for an initial-batch
\* promise, line 479 for a promise started by a refill): the set of items it
\* starts.
RefillOfIgnoringAbort(i) ==
  IF i \in refilling /\ currentIndex < Len(tracks)
    THEN {currentIndex + 1}
    ELSE {}

RefillOf(i) ==
  IF i \in refilling /\ currentIndex < Len(tracks) /\ ~aborted
    THEN {currentIndex + 1}
    ELSE {}

\* Operation i settles with outcome r: processTrack (lines 434-457) records
\* the result, then the promise's .finally runs, then the await of
\* Promise.race resumes and the wait loop's condition is evaluated again.
SettleOp(i, r) ==
  /\ i \in Pending
  /\ LET started == RefillOf(i)
         active  == (activePromises \ {i}) \cup started
     IN /\ opState' = [j \in 1..Len(tracks) |->
                         IF j = i THEN "settled"
                         ELSE IF j \in started THEN "pending" ELSE opState[j]]
        /\ opResult' = [opResult EXCEPT ![i] = r]
        /\ tempos' = IF r # Null THEN PutTempo(tempos, tracks[i], r[1]) ELSE tempos
        /\ completed' = completed + 1
        /\ activePromises' = active
        /\ currentIndex' = currentIndex + Cardinality(started)
        /\ refilling' = refilling \ {i}
        /\ schedPc' = IF schedPc = "waiting" /\ ~KeepsWaiting(active, aborted)
                        THEN "returned" ELSE schedPc
        /\ UNCHANGED tracks

\* cancelSearch (lines 681-688): abortController.abort()
Abort ==
  /\ ~aborted
  /\ aborted' = TRUE

\* ------------------------------------------------------------------------
\* getTrackBPMWithGemini (part_002:56-420)
\* ------------------------------------------------------------------------

\* The tiers, in the order of the code: lines 142, 228, 314.
TierNames == <<"PRIMARY", "SECONDARY", "TERTIARY">>
NumTiers == Len(TierNames)

\* `bpm < 300` (lines 199, 286, 372)
bpmUpperBound == 300

\* The text of a response, after trim(): an optional sign, the first run of
\* digits (none, or the number it denotes) and the other characters.
Text(sign, digits, rest) == [sign |-> sign, digits |-> digits, rest |-> rest]

EmptyText == Text("", <<>>, "")

Texts ==
  { EmptyText,
    Text("", <<>>, "unknown"),
    Text("", <<128>>, " BPM"),
    Text("", <<0>>, ""),
    Text("", <<299>>, ""),
    Text("", <<300>>, ""),
    Text("-", <<78>>, "") }

\* What `await model.generateContent(prompt)` gives: it rejects (transport
\* error), or it resolves with a response of some text.
Throws == [throws |-> TRUE, text |-> EmptyText]
Responses == {Throws} \cup {[throws |-> FALSE, text |-> t] : t \in Texts}

\* extractBPMData (lines 120-130): bpmText.match(/(\d+\.?\d*)/) takes the
\* first run of digits, whatever precedes it; with no digit parseFloat of
\* the text is NaN.  The result is Null for NaN.
ParseBpm(t) == IF t.digits # <<>> THEN Bpm(t.digits[1]) ELSE Null

\* !isNaN(bpm) && bpm > 0 && bpm < 300
ValidBpmInclusive(v) == v # Null /\ v[1] > 0 /\ v[1] <= bpmUpperBound

ValidBpm(v) == v # Null /\ v[1] > 0 /\ v[1] < bpmUpperBound

IdleGemini ==
  [pc |-> "idle", tier |-> 0, calls |-> <<>>,
   tierOutcome |-> [k \in 1..NumTiers |-> "none"],
   result |-> Null, thrown |-> "none"]

NoLiveStatus ==
  [primary |-> "none", secondary |-> "none", tertiary |-> "none", finalBPM |-> Null]

\* The parameters addGeminiLog and updateLiveStatus (line 56): given or null.
\* The application passes both (lines 1245-1250).
BothObservers == [log |-> TRUE, status |-> TRUE]
NoObservers == [log |-> FALSE, status |-> FALSE]

OracleIdle ==
  /\ gemini = IdleGemini
  /\ geminiLogs = <<>>
  /\ geminiLiveStatus = NoLiveStatus
  /\ consoleErrors = <<>>
  /\ observers = BothObservers
  /\ geminiBare = IdleGemini

\* addGeminiLog (line 678): the entry is put first, the last 50 are kept.
AddGeminiLog(logs, e) == <<e>> \o SubSeq(logs, 1, Min(Len(logs), 49))

\* updateLiveStatus(songKey, {<tier k>: v}): the song's entry is merged with
\* the update (lines 694-702).
SetTierStatus(live, k, v) ==
  CASE k = 1 -> [live EXCEPT !.primary = v]
    [] k = 2 -> [live EXCEPT !.secondary = v]
    [] k = 3 -> [live EXCEPT !.tertiary = v]
    [] OTHER -> live

\* The locals and the channels of one call, as one value.
OracleState == [g |-> gemini, logs |-> geminiLogs, live |-> geminiLiveStatus,
                errs |-> consoleErrors, obs |-> observers]

\* The same for the call that was given no callback: nothing is passed to
\* the log or the status map.
BareState == [g |-> geminiBare, logs |-> <<>>, live |-> NoLiveStatus,
              errs |-> <<>>, obs |-> NoObservers]

\* `if (addGeminiLog) addGeminiLog(e)` and `if (updateLiveStatus)
\* updateLiveStatus(...)`: the new value of the log and of the status entry.
LogIfGiven(st, e) == IF st.obs.log THEN AddGeminiLog(st.logs, e) ELSE st.logs

StatusIfGiven(st, live) == IF st.obs.status THEN live ELSE st.live

\* The entry a tier passes to addGeminiLog (lines 184-197, 270-284, 356-370)
\* and the entry of lines 407-417.
TierLog(k, v) ==
  [tier |-> TierNames[k], parsedBPM |-> v, valid |-> ValidBpm(v), error |-> FALSE]

AllFailedLog ==
  [tier |-> "ALL FAILED", parsedBPM |-> Null, valid |-> FALSE, error |-> TRUE]

\* The cancellation check at the head of a tier (lines 147, 233, 319).
TierCancelledNever(ab) == FALSE

TierCancelled(ab) == ab

\* The catch block of tier k (lines 218-226, 304-312, 389-397), entered for
\* the reason why: console.error and the live status, nothing else.
FailTier(st, k, why) ==
  [st EXCEPT !.g.tierOutcome[k] = why,
             !.errs = Append(@, TierNames[k]),
             !.live = StatusIfGiven(st,
                        IF k < NumTiers
                          THEN SetTierStatus(SetTierStatus(@, k, "error"), k + 1, "running")
                          ELSE SetTierStatus(@, k, "error"))]

\* A tier whose parsed value is not valid (lines 184-197, 211-217): the
\* entry is logged and the code falls through to the next tier.
InvalidTier(st, k, v) ==
  [st EXCEPT !.g.tierOutcome[k] = "invalid",
             !.logs = LogIfGiven(st, TierLog(k, v)),
             !.live = StatusIfGiven(st,
                        IF k < NumTiers
                          THEN SetTierStatus(SetTierStatus(@, k, "failed"), k + 1, "running")
                          ELSE SetTierStatus(@, k, "failed"))]

\* A tier whose parsed value is valid (lines 184-210): `return bpm`.
SucceedTier(st, k, v) ==
  LET mark(n, old) == IF n = k THEN "success"
                      ELSE IF n > k THEN "skipped" ELSE old
  IN [st EXCEPT !.g.tierOutcome[k] = "valid",
                !.g.pc = "returned",
                !.g.result = v,
                !.logs = LogIfGiven(st, TierLog(k, v)),
                !.live = StatusIfGiven(st,
                           [primary   |-> mark(1, st.live.primary),
                            secondary |-> mark(2, st.live.secondary),
                            tertiary  |-> mark(3, st.live.tertiary),
                            finalBPM  |-> v])]

\* Lines 399-419: one console.error, one log entry, return null.
AllFailedThrows(st) ==
  [st EXCEPT !.g.pc = "threw", !.g.thrown = "All three tiers failed",
             !.errs = Append(@, "ALL FAILED"),
             !.live = StatusIfGiven(st, [@ EXCEPT !.finalBPM = Null]),
             !.logs = LogIfGiven(st, AllFailedLog)]

AllFailed(st) ==
  [st EXCEPT !.g.pc = "returned", !.g.result = Null,
             !.errs = Append(@, "ALL FAILED"),
             !.live = StatusIfGiven(st, [@ EXCEPT !.finalBPM = Null]),
             !.logs = LogIfGiven(st, AllFailedLog)]

\* Control reaches the head of tier k with the signal's value ab: the tier
\* throws into its own catch when the signal is raised, otherwise it issues
\* its network call and the function is suspended at the await (lines 167,
\* 253, 339).  Past the last tier the code of lines 399-419 runs.
RECURSIVE BeginTierGated(_, _, _)
BeginTierGated(st, k, ab) ==
  IF st.live.finalBPM # Null
    THEN [st EXCEPT !.g.pc = "returned", !.g.result = st.live.finalBPM]
  ELSE IF k > NumTiers THEN AllFailed(st)
  ELSE IF TierCancelled(ab)
    THEN BeginTierGated(FailTier(st, k, "cancelled"), k + 1, ab)
  ELSE [st EXCEPT !.g.pc = "awaiting", !.g.tier = k,
                  !.g.calls = Append(@, k),
                  !.live = StatusIfGiven(st, SetTierStatus(@, k, "sending..."))]

RECURSIVE BeginTier(_, _, _)
BeginTier(st, k, ab) ==
  IF k > NumTiers THEN AllFailed(st)
  ELSE IF TierCancelled(ab) THEN BeginTier(FailTier(st, k, "cancelled"), k + 1, ab)
  ELSE [st EXCEPT !.g.pc = "awaiting", !.g.tier = k,
                  !.g.calls = Append(@, k),
                  !.live = StatusIfGiven(st, SetTierStatus(@, k, "sending..."))]

\* The await of tier k resumes with resp, the signal's value being ab
\* (lines 167-217 and the same code of tiers 2 and 3).
TierResult(st, k, resp, ab) ==
  IF resp.throws THEN BeginTier(FailTier(st, k, "error"), k + 1, ab)
  ELSE IF ab THEN BeginTier(FailTier(st, k, "cancelled"), k + 1, ab)
  ELSE IF resp.text = EmptyText THEN BeginTier(FailTier(st, k, "empty"), k + 1, ab)
  ELSE LET v == ParseBpm(resp.text)
       IN IF ValidBpm(v) THEN SucceedTier(st, k, v)
          ELSE BeginTier(InvalidTier(st, k, v), k + 1, ab)

SetOracle(st) ==
  /\ gemini' = st.g
  /\ geminiLogs' = st.logs
  /\ geminiLiveStatus' = st.live
  /\ consoleErrors' = st.errs
  /\ UNCHANGED observers

\* The call (lines 56-79) up to the first await, or the throw of line 63.
CallResult(st, ab) ==
  IF ab
    THEN [st EXCEPT !.g.pc = "threw",
                    !.g.thrown = "Request cancelled before starting"]
    ELSE BeginTier(
           [st EXCEPT
              !.live = StatusIfGiven(st,
                         [primary |-> "running", secondary |-> "pending",
                          tertiary |-> "pending", finalBPM |-> Null])],
           1, ab)

GetTrackBPMCall ==
  /\ gemini.pc = "idle"
  /\ SetOracle(CallResult(OracleState, aborted))
  /\ geminiBare' = CallResult(BareState, aborted).g

\* The network call of the current tier settles with resp.
TierSettles(resp) ==
  /\ gemini.pc = "awaiting"
  /\ SetOracle(TierResult(OracleState, gemini.tier, resp, aborted))
  /\ geminiBare' =
       IF geminiBare.pc = "awaiting"
         THEN TierResult(BareState, geminiBare.tier, resp, aborted).g
         ELSE geminiBare

\* ------------------------------------------------------------------------
\* spGet / spPost / refreshSpotifyToken (part_002:819-892)
\* ------------------------------------------------------------------------

\* Original requests made concurrently (two pages in flight, Scenario E).
Reqs == {1, 2}

\* Responses the server gives to one original request and its
\* retransmissions, at most.
MaxResponses == 3

Statuses == {200, 401, 429, 500}

\* The Retry-After header of a 429 response: absent, or a number of seconds.
RetryAfterHeaders == {<<>>, <<1>>}

\* parseInt(res.headers.get('Retry-After') || '5')   (line 857)
RetryAfter(h) == IF h = <<>> THEN 5 ELSE h[1]

\* sleep(retryAfter * 1000) followed by sleep(2000)   (lines 859-861)
ThrottleDelayMs(h) == RetryAfter(h) * 1000 + 2000

IdleReq == [kind |-> "none", pc |-> "idle", token |-> 0, sent |-> 0,
            responses |-> 0, refreshes |-> 0, n401 |-> 0, n429 |-> 0,
            lastStatus |-> 0, refreshOutcome |-> "none", sleepMs |-> 0]

HttpIdle ==
  /\ me = TRUE
  /\ accessToken = 0
  /\ req = [r \in Reqs |-> IdleReq]
  /\ refreshCalls = 0
  /\ concurrent401 = FALSE

InFlight(r) == req[r].pc \in {"fetching", "refreshing", "sleeping"}

\* A caller invokes spGet (kind "get") or spPost (kind "post"): the fetch is
\* issued with the accessToken the function closes over (lines 848, 881).
HttpCall(r, kind) ==
  /\ req[r].pc = "idle"
  /\ req' = [req EXCEPT ![r] = [@ EXCEPT !.kind = kind, !.pc = "fetching",
                                         !.token = accessToken, !.sent = 1]]
  /\ UNCHANGED <<accessToken, refreshCalls, concurrent401, me>>

\* 401 (lines 850-854, 886-889): refreshSpotifyToken() is called, which
\* issues its POST to the token endpoint before its first await.
On401(r) ==
  /\ req' = [req EXCEPT ![r] = [@ EXCEPT !.pc = "refreshing",
                                         !.refreshes = @ + 1,
                                         !.n401 = @ + 1,
                                         !.responses = @ + 1,
                                         !.lastStatus = 401]]
  /\ refreshCalls' = refreshCalls + 1
  /\ concurrent401' = (concurrent401 \/
                        \E o \in Reqs \ {r} : InFlight(o) /\ req[o].n401 > 0)
  /\ UNCHANGED <<accessToken, me>>

\* 429: spGet sleeps and retries (lines 856-863); spPost has no 429 branch,
\* so the response falls to `if (!res.ok) throw` (line 890).
On429(r, h) ==
  /\ req' = [req EXCEPT ![r] =
               [@ EXCEPT !.pc = IF req[r].kind = "get" THEN "sleeping" ELSE "failed",
                         !.sleepMs = IF req[r].kind = "get" THEN ThrottleDelayMs(h) ELSE @,
                         !.n429 = @ + 1,
                         !.responses = @ + 1,
                         !.lastStatus = 429]]
  /\ UNCHANGED <<accessToken, refreshCalls, concurrent401, me>>

\* Any other status: res.ok returns the body, anything else throws
\* (lines 865-870, 890-891).
OnOther(r, status) ==
  /\ req' = [req EXCEPT ![r] =
               [@ EXCEPT !.pc = IF status = 200 THEN "done" ELSE "failed",
                         !.responses = @ + 1,
                         !.lastStatus = status]]
  /\ UNCHANGED <<accessToken, refreshCalls, concurrent401, me>>

\* The server answers the transmission of request r.
HttpRespond(r, status, h) ==
  /\ req[r].pc = "fetching"
  /\ req[r].responses < MaxResponses
  /\ CASE status = 401 -> On401(r)
       [] status = 429 -> On429(r, h)
       [] OTHER        -> OnOther(r, status)

\* What spGet / spPost do when refreshSpotifyToken throws (line 830): the
\* await rethrows, nothing is retransmitted.
AfterRefreshFailedRetry(q) == [q EXCEPT !.pc = "fetching", !.sent = @ + 1,
                                        !.refreshOutcome = "fail"]

AfterRefreshFailed(q) == [q EXCEPT !.pc = "failed", !.refreshOutcome = "fail"]

\* The token endpoint answers the refresh of request r (lines 830-839).  On
\* success the new token is stored with setAccessToken and the request is
\* retransmitted by the recursive call `return spGet(path, params)`, which
\* is the same closure and so reads the same accessToken constant.
HttpRefreshDone(r, ok) ==
  /\ req[r].pc = "refreshing"
  /\ IF ok
       THEN /\ accessToken' = accessToken + 1
            /\ req' = [req EXCEPT ![r] = [@ EXCEPT !.pc = "fetching",
                                                   !.sent = @ + 1,
                                                   !.refreshOutcome = "ok"]]
       ELSE /\ accessToken' = accessToken
            /\ req' = [req EXCEPT ![r] = AfterRefreshFailed(@)]
  /\ UNCHANGED <<refreshCalls, concurrent401, me>>

\* The sleeps after a 429 end: `return spGet(path, params)` (line 862).
HttpWake(r) ==
  /\ req[r].pc = "sleeping"
  /\ req' = [req EXCEPT ![r] = [@ EXCEPT !.pc = "fetching", !.sent = @ + 1,
                                         !.sleepMs = 0]]
  /\ UNCHANGED <<accessToken, refreshCalls, concurrent401, me>>

\* ------------------------------------------------------------------------
\* findMatchingSongs (part_002:1123-1508)
\* ------------------------------------------------------------------------

\* The catalog: track ids, and the raw items of a page (0 stands for an item
\* that is local or has no track id, which the filters drop).
TrackIds == {1, 2}
RawItems == {0} \cup TrackIds

\* The tracks of the user's library (me/tracks): those of the playlists and
\* one that is in no playlist.
LibraryIds == TrackIds \cup {3}
RawSavedItems == {0} \cup LibraryIds

\* duration_ms of a track, in units of the target duration.
DurationMs(id) == id + 1

\* added_at of a track, the key of the final sort.
AddedAt(id) == id

\* selectedDuration * 60 * 1000 (line 1178)
targetDurationMs == 4

\* useState([150, 170]) (line 642)
DefaultTempoRange == <<150, 170>>

\* const [minTempo, maxTempo] = tempoRange (line 675)
minTempo == tempoRange[1]
maxTempo == tempoRange[2]

\* The user's playlists, in the order of sortedPlaylists, and the number of
\* them loaded concurrently (30 at line 1177).
Playlists == {1, 2, 3}
NumPlaylists == Cardinality(Playlists)
playlistBatchSize == 2

\* limit of a page of playlist items (100 at line 1284) and the pages one
\* playlist delivers at most.
PlaylistPageLimit == 2
MaxPlaylistPages == 2

\* limit of a page of saved tracks (10 at line 993) and the pages the
\* library delivers at most.
SavedPageLimit == 2
MaxSavedPages == 2

SeqsUpTo(S, n) == UNION {[1..k -> S] : k \in 0..n}

\* The pages of playlist items a request may return: at most n items.
\* Nothing in the state depends on the order of the items within one such
\* page (its submissions form a bag), so these pages are enumerated up to
\* permutation.
PagesUpTo(S, n) ==
  {q \in SeqsUpTo(S, n) : \A i \in 1..(Len(q) - 1) : q[i] <= q[i + 1]}

Range(f) == {f[i] : i \in DOMAIN f}

Count(f, x) == Cardinality({i \in DOMAIN f : f[i] = x})

IsTrack(item) == item \in TrackIds

\* The tempo match of processTrackForSelection (lines 1193-1211); bpm / 2 is
\* compared without dividing.
OriginalInRange(bpm) == bpm >= minTempo /\ bpm <= maxTempo
HalfTimeInRange(bpm) == bpm >= 2 * minTempo /\ bpm <= 2 * maxTempo
DoubleTimeNever(bpm) == FALSE

DoubleTimeInRange(bpm) == bpm * 2 >= minTempo /\ bpm * 2 <= maxTempo
TempoMatches(bpm) ==
  OriginalInRange(bpm) \/ HalfTimeInRange(bpm) \/ DoubleTimeInRange(bpm)
TempoTypeHalfFirst(bpm) ==
  IF HalfTimeInRange(bpm) THEN "half-time"
  ELSE IF OriginalInRange(bpm) THEN "original"
  ELSE IF DoubleTimeInRange(bpm) THEN "double-time"
  ELSE "original"

TempoType(bpm) ==
  IF OriginalInRange(bpm) THEN "original"
  ELSE IF HalfTimeInRange(bpm) THEN "half-time"
  ELSE IF DoubleTimeInRange(bpm) THEN "double-time"
  ELSE "original"

\* displayTempo (lines 1199-1211).  bpm / 2 need not be an integer: a tempo
\* that was divided is held as the fraction <<numerator, denominator>>.
DisplayTempo(bpm) ==
  IF TempoType(bpm) = "half-time" THEN <<bpm, 2>>
  ELSE IF TempoType(bpm) = "double-time" THEN <<bpm * 2, 1>>
  ELSE <<bpm, 1>>

\* trackWithTempo (lines 1213-1218, 1441-1447)
TrackWithTempo(id, bpm, source) ==
  [id |-> id, tempo |-> DisplayTempo(bpm), originalTempo |-> bpm,
   tempoType |-> TempoType(bpm), sourcePlaylist |-> source]

\* The inline check applied to the tracks trs with the resolved tempos tmp
\* (lines 1190-1218): the records of the accepted ones.
RECURSIVE InlineMatch(_, _)
InlineMatch(trs, tmp) ==
  IF trs = <<>> THEN <<>>
  ELSE LET id == Head(trs)
       IN (IF id \in DOMAIN tmp /\ TempoMatches(tmp[id])
             THEN <<TrackWithTempo(id, tmp[id], "playlist")>> ELSE <<>>)
          \o InlineMatch(Tail(trs), tmp)

\* filterTracksByTempo (lines 494-539): the predicate of the filter ...
FilterKeepsAny(tmp, id, minBpm, maxBpm) == id \in DOMAIN tmp

FilterKeeps(tmp, id, minBpm, maxBpm) ==
  /\ id \in DOMAIN tmp
  /\ tmp[id] # 0
  /\ LET tempo == tmp[id]
         inRange == tempo >= minBpm /\ tempo <= maxBpm
         halfTimeInRange == tempo >= 2 * minBpm /\ tempo <= 2 * maxBpm
         doubleTimeInRange == tempo * 2 >= minBpm /\ tempo * 2 <= maxBpm
     IN inRange \/ halfTimeInRange \/ doubleTimeInRange

\* ... and the function of the map (lines 512-538).
FilterMaps(tmp, id, minBpm, maxBpm) ==
  LET originalTempo == tmp[id]
  IN IF originalTempo >= minBpm /\ originalTempo <= maxBpm
       THEN [id |-> id, tempo |-> <<originalTempo, 1>>,
             originalTempo |-> originalTempo, tempoType |-> "original"]
     ELSE IF originalTempo >= 2 * minBpm /\ originalTempo <= 2 * maxBpm
       THEN [id |-> id, tempo |-> <<originalTempo, 2>>,
             originalTempo |-> originalTempo, tempoType |-> "half-time"]
     ELSE IF originalTempo * 2 >= minBpm /\ originalTempo * 2 <= maxBpm
       THEN [id |-> id, tempo |-> <<originalTempo * 2, 1>>,
             originalTempo |-> originalTempo, tempoType |-> "double-time"]
     ELSE [id |-> id, tempo |-> <<originalTempo, 1>>,
           originalTempo |-> originalTempo, tempoType |-> "original"]

RECURSIVE FilterTracksByTempo(_, _, _)
FilterTracksByTempo(trs, tmp, range) ==
  IF trs = <<>> THEN <<>>
  ELSE (IF FilterKeeps(tmp, Head(trs), range[1], range[2])
          THEN <<FilterMaps(tmp, Head(trs), range[1], range[2])>> ELSE <<>>)
       \o FilterTracksByTempo(Tail(trs), tmp, range)

\* The tempo match has not been applied.
NotApplied == [done |-> FALSE, out |-> <<>>]

MatchIdle ==
  /\ matchTempos = <<>>
  /\ filtered = NotApplied
  /\ inlineMatched = NotApplied

RECURSIVE SumDuration(_)
SumDuration(sel) ==
  IF sel = <<>> THEN 0
  ELSE DurationMs(Head(sel).id) + SumDuration(Tail(sel))

\* The accept of one matching track (lines 1220-1221, 1449-1450):
\* selectedTracks.push(trackWithTempo); currentDurationMs += duration_ms
AcceptWithoutDuration(sel, cur, id, bpm, source) ==
  [sel |-> Append(sel, TrackWithTempo(id, bpm, source)), cur |-> cur]

Accept(sel, cur, id, bpm, source) ==
  [sel |-> Append(sel, TrackWithTempo(id, bpm, source)),
   cur |-> cur + DurationMs(id)]

ProcessTrackForSelectionUnchecked(sel, cur, id, r) ==
  IF r # Null /\ TempoMatches(r[1]) THEN Accept(sel, cur, id, r[1], "playlist")
  ELSE [sel |-> sel, cur |-> cur]

\* processTrackForSelection (lines 1188-1234) on the result r of the oracle.
ProcessTrackForSelection(sel, cur, id, r) ==
  IF cur >= targetDurationMs THEN [sel |-> sel, cur |-> cur]
  ELSE IF r # Null /\ TempoMatches(r[1]) THEN Accept(sel, cur, id, r[1], "playlist")
  ELSE [sel |-> sel, cur |-> cur]

\* The accept loop over uniqueSavedTracks (lines 1414-1464), from position i.
RECURSIVE AcceptSaved(_, _, _, _, _)
AcceptSaved(unique, tmp, i, sel, cur) ==
  IF i > Len(unique) \/ cur >= targetDurationMs THEN [sel |-> sel, cur |-> cur]
  ELSE IF unique[i] \in DOMAIN tmp /\ TempoMatches(tmp[unique[i]])
    THEN LET a == Accept(sel, cur, unique[i], tmp[unique[i]], "Saved Tracks")
         IN AcceptSaved(unique, tmp, i + 1, a.sel, a.cur)
    ELSE AcceptSaved(unique, tmp, i + 1, sel, cur)

\* selectedTracks.sort((a, b) => new Date(b.added_at) - new Date(a.added_at))
\* (line 1383): a stable sort, most recent first.
RECURSIVE InsertByAddedAt(_, _)
InsertByAddedAt(sorted, t) ==
  IF sorted = <<>> THEN <<t>>
  ELSE IF AddedAt(Head(sorted).id) >= AddedAt(t.id)
    THEN <<Head(sorted)>> \o InsertByAddedAt(Tail(sorted), t)
    ELSE <<t>> \o sorted

RECURSIVE SortByAddedAt(_)
SortByAddedAt(sel) ==
  IF sel = <<>> THEN <<>>
  ELSE InsertByAddedAt(SortByAddedAt(SubSeq(sel, 1, Len(sel) - 1)), sel[Len(sel)])

IdleLoader == [pc |-> "none", pages |-> 0]

\* The errors a request of the session can fail with: spGet's own throw
\* (line 867) and the throw of refreshSpotifyToken (line 830).
FailureCauses == {"GET failed", "Refresh failed"}

\* chunk(uris, 100) (line 1533)
UriChunkSize == 2

\* chunk (lines 48-52): the slices arr.slice(i, i + size) for i = 0, size, ...
RECURSIVE ChunkOversize(_, _)
ChunkOversize(arr, size) ==
  IF arr = <<>> THEN <<>>
  ELSE LET k == Min(size + 1, Len(arr))
       IN <<SubSeq(arr, 1, k)>> \o ChunkOversize(SubSeq(arr, k + 1, Len(arr)), size)

RECURSIVE Chunk(_, _)
Chunk(arr, size) ==
  IF arr = <<>> THEN <<>>
  ELSE LET k == Min(size, Len(arr))
       IN <<SubSeq(arr, 1, k)>> \o Chunk(SubSeq(arr, k + 1, Len(arr)), size)

\* finalTrackSelection.map(t => t.uri) (line 1532): the uri of a track is
\* determined by its id.
Uris(sel) == [i \in DOMAIN sel |-> sel[i].id]

\* createPlaylistFromSelection: where it is suspended, the chunks of uris
\* it iterates over and the item-insertion calls it has issued.
IdleCreation == [pc |-> "idle", chunks |-> <<>>, calls |-> <<>>]

FlowIdle ==
  /\ scanOutcome = "none"
  /\ authFailure = FALSE
  /\ creation = IdleCreation

\* The answer of the catalog to a request with the given offset and limit.
CatalogPage(items, offset, limit) ==
  SubSeq(items, offset + 1, Min(offset + limit, Len(items)))

\* The filter of a page of playlist items (lines 1288-1289): 0 stands for an
\* item that is local or has no track id.
FilterItems(page) == SelectSeq(page, IsTrack)

\* hasMore = tracks.length === 100 (line 1310), tracks being the filtered page
HasMore(tr) == Len(tr) = PlaylistPageLimit

\* The pagination loop of one playlist (lines 1278-1316).
IdlePl == [pc |-> "idle", offset |-> 0, seen |-> <<>>, requests |-> 0]

\* loadPlaylists (lines 919-949): limit 50 (line 932), the page length that
\* continues the loop (line 934) and the values of maxPlaylists it is called
\* with (lines 1156, 1353).
PlaylistsPageLimit == 50
PlaylistsFullPage == 20
MaxPlaylistsValues == {100, 200}

IdleLp == [pc |-> "idle", out |-> 0, next |-> TRUE, max |-> 0, requests |-> 0,
           playlists |-> 0]

PagingIdle ==
  /\ plItems = <<>>
  /\ pl = IdlePl
  /\ numCollections = 0
  /\ lp = IdleLp

\* No session ran before, or all its calls have settled.
NoneResolving == [id \in TrackIds |-> 0]

IdleEarlier == [resolving |-> NoneResolving, sel |-> <<>>, cur |-> 0]

ScanIdle ==
  /\ earlier = IdleEarlier
  /\ playlistCreationStep = "select"
  /\ scanningPhase = "primary"
  /\ scannedTracks = <<>>
  /\ totalScannedDuration = 0
  /\ finalTrackSelection = <<>>
  /\ finalAliased = FALSE
  /\ scanPc = "idle"
  /\ batchStart = 0
  /\ loader = [p \in Playlists |-> IdleLoader]
  /\ seenTrackIds = {}
  /\ resolving = [id \in TrackIds |-> 0]
  /\ selectedTracks = <<>>
  /\ currentDurationMs = 0
  /\ savedItems = <<>>
  /\ savedPages = 0
  /\ savedMore = FALSE

\* playlistBatch (lines 1267-1268)
BatchOf(bs) == {p \in Playlists : bs < p /\ p <= bs + playlistBatchSize}

\* playlistBatch.map(async ...) (line 1273): every loader of the batch
\* issues the request of its first page.
StartBatch(ld, bs) ==
  [p \in Playlists |-> IF p \in BatchOf(bs) THEN [pc |-> "fetching", pages |-> 1]
                                             ELSE ld[p]]

\* The call of findMatchingSongs with playlists loaded (lines 1134-1146,
\* 1177-1185) up to the await of the first batch (line 1342).  The button
\* is shown in the select step only.  A call made while oracle calls of an
\* earlier session are unsettled is not covered by this action.
\* The earlier invocation's closures stay alive while calls it started are
\* unsettled: its controller is not aborted by a new invocation (line 1135
\* creates a new one).  One earlier session at a time is kept.
FindMatchingSongs ==
  /\ scanPc \in {"idle", "finished"}
  /\ playlistCreationStep = "select"
  /\ resolving = NoneResolving \/ earlier.resolving = NoneResolving
  /\ earlier' = IF resolving = NoneResolving THEN earlier
                ELSE [resolving |-> resolving, sel |-> selectedTracks,
                      cur |-> currentDurationMs]
  /\ resolving' = NoneResolving
  /\ aborted' = FALSE
  /\ scanOutcome' = "none"
  /\ authFailure' = FALSE
  /\ savedItems' = <<>>
  /\ savedPages' = 0
  /\ savedMore' = FALSE
  /\ tracks' = <<>>
  /\ currentIndex' = 0
  /\ activePromises' = {}
  /\ refilling' = {}
  /\ opState' = <<>>
  /\ opResult' = <<>>
  /\ tempos' = <<>>
  /\ completed' = 0
  /\ schedPc' = "idle"
  /\ playlistCreationStep' = "scanning"
  /\ scannedTracks' = <<>>
  /\ totalScannedDuration' = 0
  /\ finalTrackSelection' = <<>>
  /\ finalAliased' = FALSE
  /\ scanningPhase' = "primary"
  /\ currentDurationMs' = 0
  /\ selectedTracks' = <<>>
  /\ seenTrackIds' = {}
  /\ batchStart' = 0
  /\ loader' = StartBatch([p \in Playlists |-> IdleLoader], 0)
  /\ scanPc' = "batch"
  /\ UNCHANGED <<includeSaved, creation, httpVars, oracleVars,
                 matchVars, pagingVars>>

\* setScanningPhase('complete') at the end of a scan (lines 1468, 1485, 1491, 1499)
FinishedPhasePrimary == "primary"

FinishedPhase == "complete"

\* Step 5 (lines 1475-1494) and the finally clause: the transition to review
\* with the selection, or to select when the selection is empty.
ShowResultsOnlyWhenTargetMet(sel) ==
  /\ scanningPhase' = FinishedPhase
  /\ scanPc' = "finished"
  /\ IF Len(sel) > 0 /\ SumDuration(sel) >= targetDurationMs
       THEN /\ finalTrackSelection' = sel
            /\ finalAliased' = TRUE
            /\ playlistCreationStep' = "review"
            /\ scanOutcome' = "review"
       ELSE /\ playlistCreationStep' = "select"
            /\ scanOutcome' = "no-matches"
            /\ UNCHANGED <<finalTrackSelection, finalAliased>>

ShowResults(sel) ==
  /\ scanningPhase' = FinishedPhase
  /\ scanPc' = "finished"
  /\ IF Len(sel) > 0
       THEN /\ finalTrackSelection' = sel
            /\ finalAliased' = TRUE
            /\ playlistCreationStep' = "review"
            /\ scanOutcome' = "review"
       ELSE /\ playlistCreationStep' = "select"
            /\ scanOutcome' = "no-matches"
            /\ UNCHANGED <<finalTrackSelection, finalAliased>>

\* The batch loop goes on to the next batch (lines 1370-1373, 1261-1265):
\* the target is not reached and playlists remain.
NextBatchStartsAnyway(cur, bs) == bs + playlistBatchSize < NumPlaylists

NextBatchStarts(cur, bs) ==
  cur < targetDurationMs /\ bs + playlistBatchSize < NumPlaylists

\* The batch loop after the playlist loaders took the states ld (lines
\* 1342-1374, 1261-1265): when the whole batch is done, either the next
\* batch starts or the loop is left for the 2 second wait (line 1378).
BatchLoop(ld) ==
  IF \A q \in BatchOf(batchStart) : ld[q].pc = "done"
    THEN IF NextBatchStarts(currentDurationMs, batchStart)
           THEN /\ batchStart' = batchStart + playlistBatchSize
                /\ loader' = StartBatch(ld, batchStart + playlistBatchSize)
                /\ scanPc' = "batch"
           ELSE /\ loader' = ld
                /\ scanPc' = "settle"
                /\ UNCHANGED batchStart
    ELSE /\ loader' = ld
         /\ UNCHANGED <<scanPc, batchStart>>

\* A page of playlist items arrives (lines 1283-1316): the new tracks are
\* computed by the filter before any of them is added to seenTrackIds, each
\* is handed to processTrackImmediately (lines 1237-1249), which starts a
\* resolution unless the target is reached or the signal is raised.
PageArrives(p, page) ==
  /\ scanPc = "batch"
  /\ loader[p].pc = "fetching"
  /\ LET tr       == FilterItems(page)
         newTr    == SelectSeq(tr, LAMBDA id : id \notin seenTrackIds)
         starts   == currentDurationMs < targetDurationMs /\ ~aborted
         hasMore  == HasMore(tr)
     IN /\ hasMore => loader[p].pages < MaxPlaylistPages
        /\ seenTrackIds' = seenTrackIds \cup Range(newTr)
        /\ resolving' = [id \in TrackIds |->
                           resolving[id] + IF starts THEN Count(newTr, id) ELSE 0]
        /\ BatchLoop([loader EXCEPT ![p].pc = IF hasMore THEN "sleeping" ELSE "done"])
  /\ UNCHANGED <<uiVars, selectedTracks, currentDurationMs, savedItems,
                 savedPages, savedMore, schedVars, httpVars,
                 oracleVars, matchVars, flowVars, pagingVars, earlier,
                 aborted>>

\* The request of a page fails: the loader's catch returns an empty source
\* (lines 1332-1338).
PageFails(p, cause) ==
  /\ scanPc = "batch"
  /\ loader[p].pc = "fetching"
  /\ authFailure' = (authFailure \/ cause = "Refresh failed")
  /\ BatchLoop([loader EXCEPT ![p].pc = "done"])
  /\ UNCHANGED <<uiVars, seenTrackIds, resolving, selectedTracks,
                 currentDurationMs, savedItems, savedPages, savedMore,
                 schedVars, httpVars, oracleVars, matchVars, scanOutcome,
                 creation, pagingVars, earlier, aborted>>

\* sleep(50) ends and the next page is requested (lines 1313-1315, 1283).
NextPage(p) ==
  /\ scanPc = "batch"
  /\ loader[p].pc = "sleeping"
  /\ loader' = [loader EXCEPT ![p] = [pc |-> "fetching", pages |-> @.pages + 1]]
  /\ UNCHANGED <<uiVars, scanPc, batchStart, seenTrackIds, resolving,
                 selectedTracks, currentDurationMs, savedItems, savedPages,
                 savedMore, schedVars, httpVars,
                 oracleVars, matchVars, flowVars, pagingVars, earlier,
                 aborted>>

\* A resolution started by processTrackImmediately settles with r and its
\* result goes to processTrackForSelection (lines 1250-1252, 1188-1234).
ResolutionSettles(id, r) ==
  /\ resolving[id] > 0
  /\ resolving' = [resolving EXCEPT ![id] = @ - 1]
  /\ LET a == ProcessTrackForSelection(selectedTracks, currentDurationMs, id, r)
     IN /\ selectedTracks' = a.sel
        /\ currentDurationMs' = a.cur
        /\ IF a.sel # selectedTracks
             THEN /\ scannedTracks' = a.sel
                  /\ totalScannedDuration' = a.cur
             ELSE UNCHANGED <<scannedTracks, totalScannedDuration>>
        /\ finalTrackSelection' = IF finalAliased THEN a.sel ELSE finalTrackSelection
  /\ UNCHANGED <<playlistCreationStep, scanningPhase, finalAliased, includeSaved,
                 scanPc, batchStart, loader, seenTrackIds, savedItems,
                 savedPages, savedMore, schedVars, httpVars,
                 oracleVars, matchVars, flowVars, pagingVars, earlier,
                 aborted>>

\* A call started by the session before settles with r: the closure it runs
\* is that session's processTrackForSelection, over that session's
\* selectedTracks and currentDurationMs, and the setters it calls are the
\* component's (lines 1227-1228).
EarlierResolutionSettles(id, r) ==
  /\ earlier.resolving[id] > 0
  /\ LET a == ProcessTrackForSelection(earlier.sel, earlier.cur, id, r)
     IN /\ earlier' = [resolving |-> [earlier.resolving EXCEPT ![id] = @ - 1],
                       sel |-> a.sel, cur |-> a.cur]
        /\ IF a.sel # earlier.sel
             THEN /\ scannedTracks' = a.sel
                  /\ totalScannedDuration' = a.cur
             ELSE UNCHANGED <<scannedTracks, totalScannedDuration>>
  /\ UNCHANGED <<playlistCreationStep, scanningPhase, finalTrackSelection,
                 finalAliased, includeSaved, sessionVars, schedVars, httpVars,
                 oracleVars, matchVars, flowVars, pagingVars, aborted>>

\* The 2 second wait ends (line 1378): the selection is sorted in place and
\* the outcome of the primary phase is decided (lines 1383-1401, 1466-1494).
WaitElapsed ==
  /\ scanPc = "settle"
  /\ LET sel == SortByAddedAt(selectedTracks)
     IN /\ selectedTracks' = sel
        /\ IF currentDurationMs < targetDurationMs /\ Len(sel) > 0 /\ includeSaved
             THEN /\ scanningPhase' = "secondary"
                  /\ scanPc' = "savedPages"
                  /\ savedPages' = 1
                  /\ UNCHANGED <<playlistCreationStep, finalTrackSelection,
                                 finalAliased, scanOutcome>>
             ELSE /\ ShowResults(sel)
                  /\ UNCHANGED savedPages
  /\ UNCHANGED <<scannedTracks, totalScannedDuration, includeSaved, batchStart,
                 loader, seenTrackIds, resolving, currentDurationMs, savedItems,
                 savedMore, schedVars, httpVars, oracleVars, matchVars,
                 authFailure, creation, pagingVars, earlier, aborted>>

\* A page of saved tracks arrives (lines 993-996); sleep(500) follows.  The
\* library holds a track at most once.
SavedPageArrives(page) ==
  /\ scanPc = "savedPages"
  /\ Len(page) = SavedPageLimit => savedPages < MaxSavedPages
  /\ \A id \in LibraryIds : Count(savedItems \o page, id) <= 1
  /\ savedItems' = savedItems \o SelectSeq(page, LAMBDA it : it \in LibraryIds)
  /\ savedMore' = (Len(page) = SavedPageLimit)
  /\ scanPc' = "savedSleep"
  /\ UNCHANGED <<uiVars, batchStart, loader, seenTrackIds, resolving,
                 selectedTracks, currentDurationMs, savedPages, schedVars,
                 httpVars,
                 oracleVars, matchVars, flowVars, pagingVars, earlier,
                 aborted>>

\* The request of a page of saved tracks fails: the error reaches the outer
\* catch of findMatchingSongs (lines 1496-1504).
SavedPageFails(cause) ==
  /\ scanPc = "savedPages"
  /\ authFailure' = (authFailure \/ cause = "Refresh failed")
  /\ scanOutcome' = "error"
  /\ scanningPhase' = FinishedPhase
  /\ playlistCreationStep' = "select"
  /\ scanPc' = "finished"
  /\ UNCHANGED <<scannedTracks, totalScannedDuration, finalTrackSelection,
                 finalAliased, includeSaved, batchStart, loader, seenTrackIds,
                 resolving, selectedTracks, currentDurationMs, savedItems,
                 savedPages, savedMore, schedVars, httpVars, oracleVars,
                 matchVars, creation, pagingVars, earlier, aborted>>

\* The secondary accept loop and step 5, run when fetchTemposFor... has
\* returned the map tmp for uniqueSavedTracks (lines 1413-1494).
AcceptSavedAndShow(unique, tmp) ==
  LET a == AcceptSaved(unique, tmp, 1, selectedTracks, currentDurationMs)
  IN /\ selectedTracks' = a.sel
     /\ currentDurationMs' = a.cur
     /\ IF a.sel # selectedTracks
          THEN /\ scannedTracks' = a.sel
               /\ totalScannedDuration' = a.cur
          ELSE UNCHANGED <<scannedTracks, totalScannedDuration>>
     /\ ShowResults(a.sel)

\* sleep(500) of getAllSavedTracks ends (line 997): the next page is
\* requested, or the library is complete and the scheduler is called on the
\* saved tracks not in the selection (lines 1403-1411).
SavedWake ==
  /\ scanPc = "savedSleep"
  /\ IF savedMore
       THEN /\ scanPc' = "savedPages"
            /\ savedPages' = savedPages + 1
            /\ UNCHANGED <<uiVars, selectedTracks, currentDurationMs, schedVars,
                           scanOutcome>>
       ELSE LET existingTrackIds == {selectedTracks[i].id : i \in DOMAIN selectedTracks}
                unique == SelectSeq(savedItems, LAMBDA id : id \notin existingTrackIds)
            IN /\ FetchTemposCall(unique)
               /\ UNCHANGED <<savedPages, includeSaved>>
               /\ IF schedPc' = "returned"
                    THEN AcceptSavedAndShow(unique, <<>>)
                    ELSE /\ scanPc' = "savedTempos"
                         /\ UNCHANGED <<uiVars, selectedTracks, currentDurationMs,
                                        scanOutcome>>
  /\ UNCHANGED <<includeSaved, batchStart, loader, seenTrackIds, resolving,
                 savedItems, savedMore, httpVars, oracleVars, matchVars,
                 authFailure, creation, pagingVars, earlier, aborted>>

\* An operation of the scheduler settles during the secondary phase; when
\* this makes fetchTemposFor... return, the accept loop runs on its map.
SavedOpSettles(i, r) ==
  /\ SettleOp(i, r)
  /\ IF scanPc = "savedTempos" /\ schedPc' = "returned"
       THEN AcceptSavedAndShow(tracks, tempos')
       ELSE UNCHANGED <<uiVars, scanPc, selectedTracks, currentDurationMs,
                        scanOutcome>>
  /\ UNCHANGED <<includeSaved, batchStart, loader, seenTrackIds, resolving,
                 savedItems, savedPages, savedMore, httpVars, oracleVars,
                 matchVars, authFailure, creation, pagingVars, earlier, aborted>>

\* cancelSearch while the session's abortController is set.
CancelSearch ==
  /\ scanPc \notin {"idle", "finished"}
  /\ Abort
  /\ UNCHANGED <<schedVars, httpVars, scanVars, oracleVars, matchVars,
                 flowVars, pagingVars, earlier>>

\* The reset of the review step ("Start Over", lines 2245-2252) and of the
\* complete step ("Create Another Playlist", lines 2313-2322).
\* createPlaylistFromSelection has returned by then: its locals are gone.
ResetToSelect ==
  /\ playlistCreationStep' = "select"
  /\ scannedTracks' = <<>>
  /\ totalScannedDuration' = 0
  /\ finalTrackSelection' = <<>>
  /\ finalAliased' = FALSE
  /\ scanningPhase' = "primary"
  /\ creation' = IdleCreation
  /\ UNCHANGED <<includeSaved, sessionVars, schedVars, httpVars, oracleVars,
                 matchVars, scanOutcome, authFailure, pagingVars, earlier,
                 aborted>>

StartOver ==
  /\ playlistCreationStep = "review"
  /\ ResetToSelect

CreateAnother ==
  /\ playlistCreationStep = "complete"
  /\ ResetToSelect

\* The catch of createPlaylistFromSelection (lines 1542-1545).
CreationFailed ==
  /\ playlistCreationStep' = "review"
  /\ creation' = IdleCreation

\* The Logout button (lines 1694-1702): the tokens and the profile are
\* cleared; the step and the selection are left as they are.
NoToken == 0 - 1

Logout ==
  /\ me
  /\ me' = FALSE
  /\ accessToken' = NoToken
  /\ UNCHANGED <<req, refreshCalls, concurrent401, schedVars, scanVars,
                 oracleVars, matchVars, flowVars, pagingVars, earlier, aborted>>

\* createPlaylistFromSelection up to its first await (lines 1511-1526).
\* The guard of line 1512: the call returns at once.
CreationRefusedOnlyWhenEmpty == Len(finalTrackSelection) = 0

CreationRefused == ~me \/ Len(finalTrackSelection) = 0

CreatePlaylistFromSelection ==
  /\ playlistCreationStep = "review"
  /\ creation.pc \in {"idle", "done"}
  /\ IF CreationRefused
       THEN UNCHANGED <<playlistCreationStep, creation>>
       ELSE /\ playlistCreationStep' = "creating"
            /\ creation' = [pc |-> "posting", chunks |-> <<>>, calls |-> <<>>]
  /\ UNCHANGED <<scanningPhase, scannedTracks, totalScannedDuration,
                 finalTrackSelection, finalAliased, includeSaved, sessionVars,
                 schedVars, httpVars, oracleVars, matchVars, scanOutcome,
                 authFailure, pagingVars, earlier, aborted>>

\* The POST that creates the playlist settles (lines 1526-1534): on success
\* the uris are taken from finalTrackSelection and the first chunk is
\* posted; on failure the catch runs.
PlaylistPostSettles(ok) ==
  /\ creation.pc = "posting"
  /\ IF ok
       THEN LET chunks == Chunk(Uris(finalTrackSelection), UriChunkSize)
            IN /\ creation' = [pc |-> "adding", chunks |-> chunks,
                               calls |-> <<chunks[1]>>]
               /\ UNCHANGED playlistCreationStep
       ELSE CreationFailed
  /\ UNCHANGED <<scanningPhase, scannedTracks, totalScannedDuration,
                 finalTrackSelection, finalAliased, includeSaved, sessionVars,
                 schedVars, httpVars, oracleVars, matchVars, scanOutcome,
                 authFailure, pagingVars, earlier, aborted>>

\* The POST of a chunk of uris settles (line 1534); sleep(100) follows.
ChunkPostSettles(ok) ==
  /\ creation.pc = "adding"
  /\ IF ok
       THEN /\ creation' = [creation EXCEPT !.pc = "sleeping"]
            /\ UNCHANGED playlistCreationStep
       ELSE CreationFailed
  /\ UNCHANGED <<scanningPhase, scannedTracks, totalScannedDuration,
                 finalTrackSelection, finalAliased, includeSaved, sessionVars,
                 schedVars, httpVars, oracleVars, matchVars, scanOutcome,
                 authFailure, pagingVars, earlier, aborted>>

\* sleep(100) ends (lines 1535-1540): the next chunk is posted, or the
\* playlist is complete.
ChunkSleepEnds ==
  /\ creation.pc = "sleeping"
  /\ IF Len(creation.calls) < Len(creation.chunks)
       THEN /\ creation' = [creation EXCEPT
                              !.pc = "adding",
                              !.calls = Append(@, creation.chunks[Len(@) + 1])]
            /\ UNCHANGED playlistCreationStep
       ELSE /\ creation' = [creation EXCEPT !.pc = "done"]
            /\ playlistCreationStep' = "complete"
  /\ UNCHANGED <<scanningPhase, scannedTracks, totalScannedDuration,
                 finalTrackSelection, finalAliased, includeSaved, sessionVars,
                 schedVars, httpVars, oracleVars, matchVars, scanOutcome,
                 authFailure, pagingVars, earlier, aborted>>

\* --- the scan session ------------------------------------------------------
\* A scan is started when no call of a session before it is unsettled.
ScanStart ==
  /\ resolving = NoneResolving
  /\ Pending = {}
  /\ FindMatchingSongs

ScanPage ==
  \E p \in Playlists, page \in PagesUpTo(RawItems, PlaylistPageLimit) :
    PageArrives(p, page)

\* A request fails with spGet's own error.  The scan handles every cause of
\* a failure alike; a failed token refresh is an input of AppSpec.
ScanPageError == \E p \in Playlists : PageFails(p, "GET failed")

ScanNextPage == \E p \in Playlists : NextPage(p)

ScanResolution ==
  \E id \in TrackIds, r \in ResolveOutcomes(aborted) : ResolutionSettles(id, r)

ScanWaitElapsed == WaitElapsed

ScanSavedPage ==
  \E page \in SeqsUpTo(RawItems, SavedPageLimit) : SavedPageArrives(page)

ScanSavedPageError == SavedPageFails("GET failed")

ScanSavedWake == SavedWake

ScanSavedOp ==
  \E i \in Pending, r \in ResolveOutcomes(aborted) : SavedOpSettles(i, r)

ScanCancel == CancelSearch

ScanStartOver == StartOver

ScanInit ==
  /\ MatchIdle
  /\ FlowIdle
  /\ PagingIdle
  /\ tempoRange = DefaultTempoRange
  /\ ScanIdle
  /\ OracleIdle
  /\ includeSaved \in BOOLEAN
  /\ SchedIdle
  /\ HttpIdle
  /\ aborted = FALSE

ScanNext ==
  \/ ScanStart \/ ScanPage \/ ScanPageError \/ ScanNextPage \/ ScanResolution
  \/ ScanWaitElapsed \/ ScanSavedPage \/ ScanSavedPageError \/ ScanSavedWake
  \/ ScanSavedOp \/ ScanCancel \/ ScanStartOver

ScanSpec == ScanInit /\ [][ScanNext]_vars

RECURSIVE SumOver(_, _)
SumOver(f, S) ==
  IF S = {} THEN 0
  ELSE LET x == CHOOSE y \in S : TRUE IN f[x] + SumOver(f, S \ {x})

\* Tempo-oracle resolutions of the session that are started and unsettled:
\* those of processTrackImmediately and those of the scheduler.
Unsettled == SumOver(resolving, TrackIds) + Cardinality(Pending)

\* C4: during a whole scan session the number of simultaneously unsettled
\* tempo-oracle resolutions never exceeds the concurrency cap.
C4_SessionConcurrencyBound == Unsettled <= maxConcurrent

\* C5: each item id occurs at most once in the selection, and its duration
\* is counted at most once in the accumulated duration.
C5_NoDuplicateSelection ==
  /\ \A i, j \in DOMAIN selectedTracks :
       i # j => selectedTracks[i].id # selectedTracks[j].id
  /\ currentDurationMs =
       SumOver([id \in LibraryIds |-> DurationMs(id)],
               {selectedTracks[i].id : i \in DOMAIN selectedTracks})

\* C6: the accumulated duration equals the sum of the durations of the
\* items in the selection, after every accept of either phase.
C6_DurationIsSum == currentDurationMs = SumDuration(selectedTracks)

\* C6 witness: a track accepted in the primary phase and one accepted from
\* the saved tracks are both in the selection.
C6_Witness ==
  /\ \E i \in DOMAIN selectedTracks : selectedTracks[i].sourcePlaylist = "playlist"
  /\ \E i \in DOMAIN selectedTracks : selectedTracks[i].sourcePlaylist = "Saved Tracks"

\* --- the scheduler on its own -------------------------------------------
SchedStart ==
  /\ \E n \in 0..MaxTracks : FetchTemposCall(IdSeq(n))
  /\ UNCHANGED <<aborted, httpVars, scanVars, oracleVars, matchVars,
                 flowVars, pagingVars, earlier>>

SchedSettle ==
  /\ \E i \in Pending, r \in ResolveOutcomes(aborted) : SettleOp(i, r)
  /\ UNCHANGED <<aborted, httpVars, scanVars, oracleVars, matchVars,
                 flowVars, pagingVars, earlier>>

SchedAbort ==
  /\ Abort
  /\ UNCHANGED <<schedVars, httpVars, scanVars, oracleVars, matchVars,
                 flowVars, pagingVars, earlier>>

SchedInit ==
  /\ MatchIdle
  /\ FlowIdle
  /\ PagingIdle
  /\ tempoRange = DefaultTempoRange
  /\ SchedIdle
  /\ OracleIdle
  /\ aborted = FALSE
  /\ HttpIdle
  /\ ScanIdle
  /\ includeSaved = TRUE

SchedNext == SchedStart \/ SchedSettle \/ SchedAbort

SchedSpec == SchedInit /\ [][SchedNext]_vars

\* The same under the assumption that every started operation settles: a
\* pending getTrackBPMWithGemini call is not left unsettled for ever.
SchedFairSpec == SchedSpec /\ WF_vars(SchedSettle)

\* C1: the number of started-but-unsettled per-item operations of the
\* scheduler never exceeds the cap maxConcurrent, for every input size and
\* every order of settling.
C1_ConcurrencyBound == Cardinality(Pending) <= maxConcurrent

\* C1 witness: the window is full again after a refill.
C1_Witness ==
  /\ Cardinality(Pending) = maxConcurrent
  /\ currentIndex > maxConcurrent
  /\ Len(tracks) > 2 * maxConcurrent

\* C2: with no cancellation requested the in-flight count stays at the cap
\* until the input is exhausted, and every item of the input has been
\* started when the scheduler returns, for every input length.
C2_RollingWindow ==
  ~aborted =>
    /\ (schedPc = "waiting" /\ currentIndex < Len(tracks))
          => Cardinality(Pending) = maxConcurrent
    /\ schedPc = "returned" => currentIndex = Len(tracks)

\* C3: the scheduler returns only in a state where every operation it
\* started has settled, also when the abort signal is raised.
C3_ReturnsWhenAllSettled == schedPc = "returned" => Pending = {}

\* --- the catalog client on its own --------------------------------------
HttpStart ==
  /\ \E r \in Reqs, kind \in {"get", "post"} : HttpCall(r, kind)
  /\ UNCHANGED <<schedVars, aborted, scanVars, oracleVars, matchVars,
                 flowVars, pagingVars, earlier>>

HttpResponse ==
  /\ \E r \in Reqs, status \in Statuses, h \in RetryAfterHeaders :
        /\ (status # 429 => h = <<>>)
        /\ HttpRespond(r, status, h)
  /\ UNCHANGED <<schedVars, aborted, scanVars, oracleVars, matchVars,
                 flowVars, pagingVars, earlier>>

HttpRefreshed ==
  /\ \E r \in Reqs, ok \in BOOLEAN : HttpRefreshDone(r, ok)
  /\ UNCHANGED <<schedVars, aborted, scanVars, oracleVars, matchVars,
                 flowVars, pagingVars, earlier>>

HttpWoken ==
  /\ \E r \in Reqs : HttpWake(r)
  /\ UNCHANGED <<schedVars, aborted, scanVars, oracleVars, matchVars,
                 flowVars, pagingVars, earlier>>

HttpInit ==
  /\ MatchIdle
  /\ FlowIdle
  /\ PagingIdle
  /\ tempoRange = DefaultTempoRange
  /\ HttpIdle
  /\ OracleIdle
  /\ SchedIdle
  /\ aborted = FALSE
  /\ ScanIdle
  /\ includeSaved = TRUE

HttpNext == HttpStart \/ HttpResponse \/ HttpRefreshed \/ HttpWoken

HttpSpec == HttpInit /\ [][HttpNext]_vars

\* C7: one original request issues at most one credential refresh call,
\* whatever the server answers to the retransmitted request.
C7_OneRefreshPerRequest == \A r \in Reqs : req[r].refreshes <= 1

\* C8: when two requests are in flight concurrently and both receive one
\* 401, exactly one refresh call is issued to the token endpoint.
C8_SingleRefresh ==
  (concurrent401 /\ \A r \in Reqs : req[r].n401 = 1) => refreshCalls = 1

\* C9: when the refresh triggered by a 401 fails, the request ends with an
\* error: it is not retransmitted and issues no other refresh, in the
\* failing step and ever after.
C9_RefreshFailurePropagates ==
  [][\A r \in Reqs :
       req'[r].refreshOutcome = "fail" =>
         /\ req'[r].pc = "failed"
         /\ req'[r].sent = req[r].sent
         /\ req'[r].refreshes = req[r].refreshes]_vars

\* C9 witness: a refresh failed after a 401.
C9_Witness ==
  \E r \in Reqs : req[r].refreshOutcome = "fail" /\ req[r].n401 >= 1

\* C10: a throttled request (get or post) is never ended by the 429: it
\* waits and is retried.
C10_ThrottledIsRetried ==
  \A r \in Reqs : req[r].lastStatus = 429 => req[r].pc \in {"sleeping", "fetching"}

\* --- one call of getTrackBPMWithGemini ----------------------------------
OracleStart ==
  /\ GetTrackBPMCall
  /\ UNCHANGED <<schedVars, aborted, httpVars, scanVars, matchVars, flowVars,
                 pagingVars, earlier>>

OracleTier ==
  /\ \E resp \in Responses : TierSettles(resp)
  /\ UNCHANGED <<schedVars, aborted, httpVars, scanVars, matchVars, flowVars,
                 pagingVars, earlier>>

OracleAbort ==
  /\ gemini.pc \in {"idle", "awaiting"}
  /\ Abort
  /\ UNCHANGED <<schedVars, httpVars, scanVars, oracleVars, matchVars,
                 flowVars, pagingVars, earlier>>

OracleInit ==
  /\ MatchIdle
  /\ FlowIdle
  /\ PagingIdle
  /\ tempoRange = DefaultTempoRange
  /\ OracleIdle
  /\ SchedIdle
  /\ HttpIdle
  /\ ScanIdle
  /\ includeSaved = TRUE
  /\ aborted = FALSE

OracleNext == OracleStart \/ OracleTier \/ OracleAbort

OracleSpec == OracleInit /\ [][OracleNext]_vars

\* --- the same call, with and without its two callbacks -------------------
\* What the status map may hold for the song when the call starts: nothing,
\* or the entry an earlier call for the same song key left behind.
LeftoverLiveStatus ==
  [primary |-> "failed", secondary |-> "success", tertiary |-> "pending",
   finalBPM |-> Bpm(128)]

ObserverChoices == [log : BOOLEAN, status : BOOLEAN]

ObserverInit ==
  /\ MatchIdle
  /\ FlowIdle
  /\ PagingIdle
  /\ tempoRange = DefaultTempoRange
  /\ gemini = IdleGemini
  /\ geminiBare = IdleGemini
  /\ geminiLogs = <<>>
  /\ consoleErrors = <<>>
  /\ observers \in ObserverChoices
  /\ geminiLiveStatus \in {NoLiveStatus, LeftoverLiveStatus}
  /\ SchedIdle
  /\ HttpIdle
  /\ ScanIdle
  /\ includeSaved = TRUE
  /\ aborted = FALSE

ObserverNext == OracleStart \/ OracleTier \/ OracleAbort

ObserverSpec == ObserverInit /\ [][ObserverNext]_vars

\* The ways a tier fails without cancellation: the network call rejects,
\* the text is empty, the parsed value is NaN or out of bounds.
FailedOutcomes == {"error", "empty", "invalid"}

\* What the caller of getTrackBPMWithGemini observes of a finished call.
CallerOutcome == <<gemini.pc, gemini.result, gemini.thrown>>

\* C11: the tiers are invoked in the order 1, 2, 3, tier k+1 only after
\* every tier up to k failed; the call returns the value of the first tier
\* whose parsed value v has 0 < v < 300, so a non-null result lies strictly
\* between 0 and 300, and at most three oracle calls are made.
C11_TierOrder ==
  /\ Len(gemini.calls) <= NumTiers
  /\ gemini.calls = IdSeq(Len(gemini.calls))
  /\ \A k \in Range(gemini.calls) : \A j \in 1..(k - 1) :
       gemini.tierOutcome[j] \in FailedOutcomes
  /\ \A i \in DOMAIN geminiLogs :
       geminiLogs[i].valid =>
         /\ i = 1
         /\ gemini.pc = "returned"
         /\ gemini.result = geminiLogs[i].parsedBPM
         /\ geminiLogs[i].tier = TierNames[Len(gemini.calls)]
  /\ (gemini.pc = "returned" /\ gemini.result # Null) =>
       /\ gemini.result[1] > 0
       /\ gemini.result[1] < bpmUpperBound
       /\ geminiLogs # <<>>
       /\ geminiLogs[1].valid

\* C11 witness: tier 1 answers a text without a number, tier 2 answers
\* "128 BPM", tier 3 is not invoked and 128 is returned.
C11_Witness ==
  /\ gemini.pc = "returned"
  /\ gemini.result = Bpm(128)
  /\ gemini.calls = <<1, 2>>
  /\ gemini.tierOutcome[1] = "invalid"

\* C12: when all three tiers fail, each by a transport error or an invalid
\* value, and no cancellation is requested, the call returns null and
\* raises no exception.
C12_AllFailedReturnsNull ==
  (\A k \in 1..NumTiers : gemini.tierOutcome[k] \in FailedOutcomes) =>
    CallerOutcome = <<"returned", Null, "none">>

\* C12 witness: the three tiers failed, one by a transport error and one by
\* an invalid value.
C12_Witness ==
  /\ \A k \in 1..NumTiers : gemini.tierOutcome[k] \in FailedOutcomes
  /\ \E k \in 1..NumTiers : gemini.tierOutcome[k] = "error"
  /\ \E k \in 1..NumTiers : gemini.tierOutcome[k] = "invalid"
  /\ ~aborted

\* C13: the outcome of a call cancelled while it runs differs from the
\* outcome of a call whose three tiers failed (null returned, nothing
\* thrown).
C13_CancelledIsDistinguishable ==
  (\E k \in 1..NumTiers : gemini.tierOutcome[k] = "cancelled") =>
    CallerOutcome # <<"returned", Null, "none">>

\* C14: while the abort signal is raised no oracle network call is issued:
\* none by a call made with the signal raised, none by the tiers after the
\* one during which the call was cancelled.
C14_NoCallAfterAbort ==
  [][aborted => gemini'.calls = gemini.calls]_vars

\* C14 witness: a call cancelled during tier 1 has ended without invoking
\* tiers 2 and 3.
C14_Witness ==
  /\ aborted
  /\ gemini.pc = "returned"
  /\ gemini.calls = <<1>>
  /\ gemini.tierOutcome = <<"cancelled", "cancelled", "cancelled">>

\* The failure events of the diagnostics log.
FailureEvents == {i \in DOMAIN geminiLogs : ~geminiLogs[i].valid}

\* C15: when the three tiers throw transport errors, exactly 3 failure
\* events are recorded on the diagnostics log, one per tier attempt, and
\* the call returns null without an exception.
C15_ThreeFailureEvents ==
  (\A k \in 1..NumTiers : gemini.tierOutcome[k] = "error") =>
    /\ Cardinality(FailureEvents) = NumTiers
    /\ CallerOutcome = <<"returned", Null, "none">>

\* ------------------------------------------------------------------------
\* The tempo match on its own: filterTracksByTempo and the inline check
\* ------------------------------------------------------------------------

\* The ranges the tempo controls can set: the presets (lines 1772-1789) and
\* ranges of the custom slider, which spans 80 .. 210 (lines 1872-1874).
Ranges ==
  {<<130, 150>>, <<150, 170>>, <<170, 190>>,
   <<80, 210>>, <<80, 160>>, <<100, 100>>}

\* Resolved tempos: values the oracle client returns (0 < t < 300).
MatchBpms == {40, 50, 75, 78, 85, 100, 150, 160, 170, 171, 201, 299}

\* The tempos maps over the tracks: a track has a resolved tempo or none.
TemposMaps == UNION {[S -> MatchBpms] : S \in SUBSET TrackIds}

\* The tracks the match is applied to, in the order of their ids.
MatchTracks == IdSeq(Cardinality(TrackIds))

\* filterTracksByTempo(withTempo, tempos, tempoRange) (line 1075)
MatchFilter ==
  /\ ~filtered.done
  /\ filtered' = [done |-> TRUE,
                  out |-> FilterTracksByTempo(MatchTracks, matchTempos, tempoRange)]
  /\ UNCHANGED <<tempoRange, matchTempos, inlineMatched, schedVars, aborted,
                 httpVars, scanVars, oracleVars, flowVars, pagingVars, earlier>>

\* the inline check of processTrackForSelection on the same tracks
MatchInline ==
  /\ ~inlineMatched.done
  /\ inlineMatched' = [done |-> TRUE, out |-> InlineMatch(MatchTracks, matchTempos)]
  /\ UNCHANGED <<tempoRange, matchTempos, filtered, schedVars, aborted,
                 httpVars, scanVars, oracleVars, flowVars, pagingVars, earlier>>

MatchInit ==
  /\ FlowIdle
  /\ PagingIdle
  /\ tempoRange \in Ranges
  /\ matchTempos \in TemposMaps
  /\ filtered = NotApplied
  /\ inlineMatched = NotApplied
  /\ SchedIdle
  /\ HttpIdle
  /\ ScanIdle
  /\ OracleIdle
  /\ includeSaved = TRUE
  /\ aborted = FALSE

MatchNext == MatchFilter \/ MatchInline

MatchSpec == MatchInit /\ [][MatchNext]_vars

\* The three candidates of a tempo t, in the order original, half-time,
\* double-time, as fractions; and a fraction lying in the inclusive range.
Candidates(t) == << <<t, 1>>, <<t, 2>>, <<2 * t, 1>> >>

VariantNames == <<"original", "half-time", "double-time">>

InTempoRange(q) == q[1] >= tempoRange[1] * q[2] /\ q[1] <= tempoRange[2] * q[2]

CandidatesInRange(t) == {i \in 1..3 : InTempoRange(Candidates(t)[i])}

\* The items either form of the match accepted.
Accepted == Range(filtered.out) \cup Range(inlineMatched.out)

\* C16: for every resolved tempo t and every range, filterTracksByTempo and
\* the inline check accept the item if and only if t, t/2 or t*2 lies in the
\* inclusive range.
C16_MatchIffCandidateInRange ==
  LET shouldMatch == {id \in DOMAIN matchTempos :
                        CandidatesInRange(matchTempos[id]) # {}}
  IN /\ filtered.done => {x.id : x \in Range(filtered.out)} = shouldMatch
     /\ inlineMatched.done => {x.id : x \in Range(inlineMatched.out)} = shouldMatch

\* C16 witness: both forms were applied to a map with a tempo accepted as
\* double-time (78 in [150,170]) and a tempo with no candidate in the range.
C16_Witness ==
  /\ filtered.done /\ inlineMatched.done
  /\ tempoRange = <<150, 170>>
  /\ matchTempos = <<78, 100>>
  /\ Len(filtered.out) = 1 /\ Len(inlineMatched.out) = 1

\* C17: for every accepted item the reported variant is the first of
\* original, half-time, double-time whose candidate lies in the range, the
\* display tempo is that candidate (so it lies in the range) and
\* originalTempo is the raw tempo.
C17_VariantPriority ==
  \A x \in Accepted :
    LET t == matchTempos[x.id]
        first == CHOOSE i \in CandidatesInRange(t) :
                   \A j \in CandidatesInRange(t) : i <= j
    IN /\ CandidatesInRange(t) # {}
       /\ x.tempoType = VariantNames[first]
       /\ x.tempo[1] * Candidates(t)[first][2] = Candidates(t)[first][1] * x.tempo[2]
       /\ InTempoRange(x.tempo)
       /\ x.originalTempo = t

\* C17 witness: 78 in [150,170] is reported as double-time with display
\* tempo 156 by both forms.
C17_Witness ==
  /\ filtered.done /\ inlineMatched.done
  /\ tempoRange = <<150, 170>>
  /\ \E x \in Range(filtered.out) :
       x.originalTempo = 78 /\ x.tempo = <<156, 1>> /\ x.tempoType = "double-time"
  /\ \E x \in Range(inlineMatched.out) :
       x.originalTempo = 78 /\ x.tempo = <<156, 1>> /\ x.tempoType = "double-time"

\* C18 (as stated): for every accepted item exactly one of the candidates
\* original, half, double lies within the inclusive range.
C18_ExactlyOneCandidate ==
  \A x \in Accepted : Cardinality(CandidatesInRange(matchTempos[x.id])) = 1

\* C18 (amended): for every accepted item at least one of the candidates
\* original, half, double lies within the inclusive range; two of them may
\* (100 and 200 in [80,210]), and the item is then reported once.
C18_AtLeastOneCandidate ==
  /\ \A x \in Accepted : Cardinality(CandidatesInRange(matchTempos[x.id])) >= 1
  /\ \A id \in TrackIds :
       /\ Cardinality({i \in DOMAIN filtered.out : filtered.out[i].id = id}) <= 1
       /\ Cardinality({i \in DOMAIN inlineMatched.out : inlineMatched.out[i].id = id}) <= 1

\* C18 witness: an item accepted with two candidates in the range.
C18_Witness ==
  /\ filtered.done /\ inlineMatched.done
  /\ \E x \in Range(filtered.out) :
       Cardinality(CandidatesInRange(matchTempos[x.id])) = 2
  /\ \E x \in Range(inlineMatched.out) :
       Cardinality(CandidatesInRange(matchTempos[x.id])) = 2

\* C19: once the accumulated duration of a session is at least the target,
\* no playlist whose items were not yet requested gets its first page
\* requested.
C19_NoNewSourceAfterTarget ==
  [][(scanPc \notin {"idle", "finished"} /\ currentDurationMs >= targetDurationMs)
       => \A p \in Playlists : loader[p].pc = "none" => loader'[p].pc = "none"]_vars

\* C19 witness: the session ended with the target reached and a playlist
\* that was never pulled.
C19_Witness ==
  /\ scanPc = "finished"
  /\ currentDurationMs >= targetDurationMs
  /\ \E p \in Playlists : loader[p].pc = "none"
  /\ \E p \in Playlists : loader[p].pc = "done"

\* C20: when every playlist is exhausted with the accumulated duration
\* below the target and saved tracks are enabled, the session scans the
\* saved tracks before it decides the outcome, also when the primary phase
\* accepted no item.
C20_SecondaryScanned ==
  ( /\ scanPc = "finished"
    /\ ~aborted
    /\ includeSaved
    /\ currentDurationMs < targetDurationMs
    /\ \A p \in Playlists : loader[p].pc = "done" )
  => savedPages > 0

\* --- the outcome of a scan ---------------------------------------------------

\* The step that ends a scan, by any path.
ScanFinishes == scanPc # "finished" /\ scanPc' = "finished"

\* C21: a scan that finishes without a fault shows the review step with the
\* whole selection when the selection is not empty, whether or not the target
\* duration was reached, and returns to the select step with the no-matches
\* outcome exactly when the selection is empty.
C21_FinishShowsSelection ==
  [][(ScanFinishes /\ scanOutcome' # "error") =>
       IF Len(selectedTracks') > 0
         THEN /\ playlistCreationStep' = "review"
              /\ finalTrackSelection' = selectedTracks'
              /\ scanOutcome' = "review"
         ELSE /\ playlistCreationStep' = "select"
              /\ scanOutcome' = "no-matches"]_vars

\* A scan has ended in review with a selection shorter than the target.
C21_Witness ==
  /\ scanPc = "finished"
  /\ scanOutcome = "review"
  /\ playlistCreationStep = "review"
  /\ Len(finalTrackSelection) > 0
  /\ finalTrackSelection = selectedTracks
  /\ currentDurationMs < targetDurationMs

\* The position of a phase in primary -> secondary -> complete.
PhaseRank(ph) ==
  CASE ph = "primary" -> 1
    [] ph = "secondary" -> 2
    [] ph = "complete" -> 3

\* The steps that end a session's claim on the phase: a reset (Start Over,
\* Create Another Playlist) and the start of a new scan.
ResetStep ==
  playlistCreationStep \in {"review", "complete"} /\ playlistCreationStep' = "select"

NewScanStep == playlistCreationStep = "select" /\ playlistCreationStep' = "scanning"

\* C22: within one scan session scanningPhase never moves to an earlier phase
\* of primary -> secondary -> complete; only a reset or the start of a new
\* scan sets it back.
C22_PhaseOnlyForward ==
  [][~(ResetStep \/ NewScanStep) =>
       PhaseRank(scanningPhase') >= PhaseRank(scanningPhase)]_vars

\* A session went through all three phases: its secondary phase requested
\* saved tracks and the scan is complete.
C22_Witness ==
  /\ scanningPhase = "complete"
  /\ scanPc = "finished"
  /\ savedPages > 0
  /\ playlistCreationStep = "review"

\* --- the steps of the application: scan, review, creation ---------------------

AppCreate == CreatePlaylistFromSelection

AppPlaylistPost == \E ok \in BOOLEAN : PlaylistPostSettles(ok)

AppChunkPost == \E ok \in BOOLEAN : ChunkPostSettles(ok)

AppChunkSleep == ChunkSleepEnds

AppCreateAnother == CreateAnother

\* A request of the scan fails because the token refresh failed.
AppRefreshFails ==
  \/ \E p \in Playlists : PageFails(p, "Refresh failed")
  \/ SavedPageFails("Refresh failed")

\* A page of saved tracks that holds the track that is in no playlist.
AppSavedPage ==
  \E page \in SeqsUpTo(RawSavedItems, SavedPageLimit) :
     /\ page \notin SeqsUpTo(RawItems, SavedPageLimit)
     /\ SavedPageArrives(page)

AppNext ==
  \/ ScanNext
  \/ AppCreate \/ AppPlaylistPost \/ AppChunkPost \/ AppChunkSleep
  \/ AppCreateAnother \/ AppSavedPage \/ AppRefreshFails

AppSpec == ScanInit /\ [][AppNext]_vars

\* select -> scanning -> review -> creating -> complete
ForwardEdges ==
  {<<"select", "scanning">>, <<"scanning", "review">>, <<"review", "creating">>,
   <<"creating", "complete">>}

\* C23: every change of playlistCreationStep is the next forward edge of
\* select -> scanning -> review -> creating -> complete or a transition to
\* select; in particular a failure while the playlist is created leads to
\* select.
C23_StepForwardOrSelect ==
  [][playlistCreationStep' # playlistCreationStep =>
       \/ playlistCreationStep' = "select"
       \/ <<playlistCreationStep, playlistCreationStep'>> \in ForwardEdges]_vars

\* --- failures and cancellation of a scan --------------------------------------

\* C24: a failed token refresh during the pagination of the playlists ends
\* the scan on the error path: once a request of the session has failed with
\* "Refresh failed", the scan is finished with the error outcome, and no
\* further request is made.
C24_RefreshFailureEndsScan ==
  authFailure => scanPc = "finished" /\ scanOutcome = "error"

\* C25: once the abort signal is raised the scheduler starts no item that was
\* not started before: in every step taken with the signal raised, an item
\* that is pending afterwards was pending before, also when an operation
\* settles and when the scheduler is called after the abort.
C25_NoStartAfterAbort ==
  [][aborted =>
       \A j \in DOMAIN opState' :
          opState'[j] = "pending" => (j \in DOMAIN opState /\ opState[j] = "pending")]_vars

\* Every operation of the initial batch settled after the abort, with items
\* of the input left unstarted.
C25_Witness ==
  /\ aborted
  /\ Pending = {}
  /\ completed = maxConcurrent
  /\ currentIndex = maxConcurrent
  /\ Len(tracks) > maxConcurrent

\* C26: after the user has cancelled a scan no item is accepted: in every
\* step of the cancelled session the selection keeps its length and the
\* accumulated duration keeps its value.
C26_NoAcceptAfterCancel ==
  [][(aborted /\ aborted') =>
       /\ Len(selectedTracks') = Len(selectedTracks)
       /\ currentDurationMs' = currentDurationMs]_vars

\* C27: after the user has cancelled a scan, findMatchingSongs requests no
\* further page of playlist items or of saved tracks.
C27_NoRequestAfterCancel ==
  [][(aborted /\ aborted') =>
       /\ \A p \in Playlists : loader'[p].pages = loader[p].pages
       /\ savedPages' = savedPages]_vars

\* --- pagination over a catalog of known content --------------------------------

\* The pagination loop of one playlist (lines 1278-1316) run against a
\* playlist whose items are plItems: the first request.
PlStart ==
  /\ pl.pc = "idle"
  /\ pl' = [pc |-> "fetching", offset |-> 0, seen |-> <<>>, requests |-> 1]
  /\ UNCHANGED <<plItems, numCollections, lp, schedVars, aborted, httpVars,
                 scanVars, oracleVars, matchVars, flowVars, earlier>>

\* The page arrives (lines 1283-1315).
PlPageArrives ==
  /\ pl.pc = "fetching"
  /\ LET page == CatalogPage(plItems, pl.offset, PlaylistPageLimit)
         tr   == FilterItems(page)
     IN pl' = [pl EXCEPT !.seen = @ \o tr,
                         !.offset = @ + PlaylistPageLimit,
                         !.pc = IF HasMore(tr) THEN "sleeping" ELSE "done"]
  /\ UNCHANGED <<plItems, numCollections, lp, schedVars, aborted, httpVars,
                 scanVars, oracleVars, matchVars, flowVars, earlier>>

\* sleep(50) ends and the next page is requested (lines 1313-1315, 1283).
PlNextPage ==
  /\ pl.pc = "sleeping"
  /\ pl' = [pl EXCEPT !.pc = "fetching", !.requests = @ + 1]
  /\ UNCHANGED <<plItems, numCollections, lp, schedVars, aborted, httpVars,
                 scanVars, oracleVars, matchVars, flowVars, earlier>>

\* The playlists the loop is run against: up to two full pages and one item.
PlaylistContents == SeqsUpTo(RawItems, 2 * PlaylistPageLimit + 1)

PagingInit ==
  /\ MatchIdle
  /\ FlowIdle
  /\ tempoRange = DefaultTempoRange
  /\ SchedIdle
  /\ OracleIdle
  /\ aborted = FALSE
  /\ HttpIdle
  /\ ScanIdle
  /\ includeSaved = TRUE
  /\ plItems \in PlaylistContents
  /\ pl = IdlePl
  /\ numCollections = 0
  /\ lp = IdleLp

PagingNext == PlStart \/ PlPageArrives \/ PlNextPage

PagingSpec == PagingInit /\ [][PagingNext]_vars

\* C28: the next page of a playlist is requested exactly when the page the
\* catalog returned is full, whatever the filter removes from it; hence when
\* the loop has ended every track of the playlist has been seen.
C28_EveryItemSeen ==
  pl.pc = "done" => pl.seen = FilterItems(plItems)

\* --- loadPlaylists (lines 919-949) ----------------------------------------------

\* The number of playlists of the user.
CollectionCounts == 0..120

\* The length of the page of me/playlists at the given offset.
PlaylistsPageLen(offset) ==
  IF offset >= numCollections THEN 0
  ELSE Min(PlaylistsPageLimit, numCollections - offset)

\* The call, up to the first request (lines 919-932).
LoadPlaylists(maxPlaylists) ==
  /\ lp.pc = "idle"
  /\ lp' = [pc |-> "fetching", out |-> 0, next |-> TRUE, max |-> maxPlaylists,
            requests |-> 1, playlists |-> 0]

\* The page arrives (lines 932-935); sleep(500) follows.
LoadPageArrives ==
  /\ lp.pc = "fetching"
  /\ LET len == PlaylistsPageLen(lp.out)
         out == lp.out + len
     IN lp' = [lp EXCEPT !.out = out,
                         !.next = (len = PlaylistsFullPage /\ out < lp.max),
                         !.pc = "sleeping"]

\* The request fails: the catch logs "Failed to load playlists." and the
\* playlists are not set (lines 944-945).
LoadPageFails ==
  /\ lp.pc = "fetching"
  /\ lp' = [lp EXCEPT !.pc = "failed"]

\* sleep(500) ends: the loop's condition (line 928) decides between the
\* next request and setPlaylists(out) (lines 938-942).
LoadWake ==
  /\ lp.pc = "sleeping"
  /\ IF lp.next /\ lp.out < lp.max
       THEN lp' = [lp EXCEPT !.pc = "fetching", !.requests = @ + 1]
       ELSE lp' = [lp EXCEPT !.pc = "done", !.playlists = lp.out]

LoadStart ==
  /\ \E maxPlaylists \in MaxPlaylistsValues : LoadPlaylists(maxPlaylists)
  /\ UNCHANGED <<plItems, pl, numCollections, schedVars, aborted, httpVars,
                 scanVars, oracleVars, matchVars, flowVars, earlier>>

LoadPage ==
  /\ LoadPageArrives
  /\ UNCHANGED <<plItems, pl, numCollections, schedVars, aborted, httpVars,
                 scanVars, oracleVars, matchVars, flowVars, earlier>>

LoadPageError ==
  /\ LoadPageFails
  /\ UNCHANGED <<plItems, pl, numCollections, schedVars, aborted, httpVars,
                 scanVars, oracleVars, matchVars, flowVars, earlier>>

LoadSleepEnds ==
  /\ LoadWake
  /\ UNCHANGED <<plItems, pl, numCollections, schedVars, aborted, httpVars,
                 scanVars, oracleVars, matchVars, flowVars, earlier>>

LoadInit ==
  /\ MatchIdle
  /\ FlowIdle
  /\ tempoRange = DefaultTempoRange
  /\ SchedIdle
  /\ OracleIdle
  /\ aborted = FALSE
  /\ HttpIdle
  /\ ScanIdle
  /\ includeSaved = TRUE
  /\ plItems = <<>>
  /\ pl = IdlePl
  /\ numCollections \in CollectionCounts
  /\ lp = IdleLp

LoadNext == LoadStart \/ LoadPage \/ LoadPageError \/ LoadSleepEnds

LoadSpec == LoadInit /\ [][LoadNext]_vars

\* C29: loadPlaylists(maxPlaylists) requests pages while the returned page
\* is full and fewer than maxPlaylists are loaded, so for a user with N
\* playlists it sets min(N, maxPlaylists) playlists (maxPlaylists being a
\* multiple of the page size).
C29_LoadsMinOfCountAndMax ==
  lp.pc = "done" => lp.playlists = Min(numCollections, lp.max)

\* --- the order of the selection ---------------------------------------------------

\* C30: the selection handed to review lists the accepted items in the order
\* of their acceptance: within a session an item keeps the position at which
\* it was accepted, later accepts being appended.
C30_AcceptanceOrderKept ==
  [][~NewScanStep =>
       \A i \in DOMAIN selectedTracks :
          i \in DOMAIN selectedTracks' /\ selectedTracks'[i] = selectedTracks[i]]_vars

\* --- createPlaylistFromSelection on a selection under review ----------------------

\* The ids of the tracks of a selection under review: enough for two whole
\* chunks and a shorter one.
SelectionIds == 1..(2 * UriChunkSize + 1)

\* The selections a scan with a large enough target hands to review: the
\* tracks are distinct (the scan submits an id once).
Selections ==
  {[i \in DOMAIN q |-> TrackWithTempo(q[i], 160, "Saved Tracks")] :
     q \in {r \in SeqsUpTo(SelectionIds, 2 * UriChunkSize + 1) :
              Len(r) > 0 /\ \A i, j \in DOMAIN r : i # j => r[i] # r[j]}}

\* The state in which a scan has ended in review with the selection sel.
UnderReview(sel) ==
  /\ playlistCreationStep = "review"
  /\ scanningPhase = "complete"
  /\ scannedTracks = sel
  /\ totalScannedDuration = SumDuration(sel)
  /\ finalTrackSelection = sel
  /\ finalAliased = TRUE
  /\ scanPc = "finished"
  /\ batchStart = 0
  /\ loader = [p \in Playlists |-> IdleLoader]
  /\ seenTrackIds = {}
  /\ resolving = NoneResolving
  /\ earlier = IdleEarlier
  /\ selectedTracks = sel
  /\ currentDurationMs = SumDuration(sel)
  /\ savedItems = <<>>
  /\ savedPages = 0
  /\ savedMore = FALSE
  /\ scanOutcome = "review"
  /\ authFailure = FALSE
  /\ creation = IdleCreation

CreateInit ==
  /\ MatchIdle
  /\ PagingIdle
  /\ tempoRange = DefaultTempoRange
  /\ OracleIdle
  /\ includeSaved = TRUE
  /\ SchedIdle
  /\ HttpIdle
  /\ aborted = FALSE
  /\ \E sel \in Selections : UnderReview(sel)

CreateNext == AppCreate \/ AppPlaylistPost \/ AppChunkPost \/ AppChunkSleep

CreateSpec == CreateInit /\ [][CreateNext]_vars

RECURSIVE Concat(_)
Concat(ss) == IF ss = <<>> THEN <<>> ELSE Head(ss) \o Concat(Tail(ss))

C32_MapByIdentity ==
  /\ DOMAIN tempos \subseteq Range(tracks)
  /\ \A i \in 1..Len(tracks) :
       IF opState[i] = "settled" /\ opResult[i] # Null
         THEN tracks[i] \in DOMAIN tempos /\ tempos[tracks[i]] = opResult[i][1]
         ELSE tracks[i] \notin DOMAIN tempos

\* The scheduler has returned a map with different tempos for two items and
\* no key for an item between them whose resolution returned null.
C32_Witness ==
  /\ schedPc = "returned"
  /\ ~aborted
  /\ Len(tracks) >= 3
  /\ DOMAIN tempos = {1, 3}
  /\ tempos[1] # tempos[3]
  /\ opResult[2] = Null

\* C33: the status map and the diagnostics log never gate the call: given
\* the same responses and the same signal, the call made with any choice of
\* the two callbacks and any content of the status map is at every step in
\* the state of the call made with neither (same tiers called in the same
\* order, same tier outcomes, same result or throw).
C33_ObserversNeverGate == geminiBare = gemini

\* C33 witness: a call given no status callback, started over a leftover
\* status entry, returned a tempo after more than one network call.
C33_Witness ==
  /\ gemini.pc = "returned"
  /\ gemini.result # Null
  /\ Len(gemini.calls) >= 2
  /\ ~observers.status
  /\ observers.log
  /\ geminiLiveStatus.finalBPM = Bpm(128)
  /\ geminiLogs # <<>>

\* C35: after a successful refresh triggered by a 401, the request that is
\* retransmitted carries the token the refresh has just issued, not the
\* token that was rejected.
C35_RetryCarriesNewToken ==
  [][\A r \in Reqs :
       (req[r].pc = "refreshing" /\ req'[r].pc = "fetching") =>
         /\ req'[r].token = accessToken'
         /\ req'[r].token # req[r].token]_vars

\* C34: once a scan has decided its outcome (review with the final
\* selection, or back to select), no resolution started by that scan changes
\* the selection or the accumulated duration any more: while the session
\* stays finished in the same step, the selection under review, the
\* session's selection and its duration stay what they were.
C34_OutcomeIsFinal ==
  [][(/\ scanPc = "finished"
      /\ scanPc' = "finished"
      /\ playlistCreationStep' = playlistCreationStep) =>
        /\ finalTrackSelection' = finalTrackSelection
        /\ selectedTracks' = selectedTracks
        /\ currentDurationMs' = currentDurationMs]_vars

\* C36: an item is accepted only in a state whose accumulated duration is
\* strictly below the target, in the primary and in the secondary phase:
\* a step that lengthens the selection starts below the target, and the
\* duration it ends with, less the duration of the item accepted last, is
\* below the target too (so the target is exceeded by less than that
\* item's duration).
C36_AcceptOnlyBelowTarget ==
  [][Len(selectedTracks') > Len(selectedTracks) =>
       LET last == selectedTracks'[Len(selectedTracks')]
       IN /\ currentDurationMs < targetDurationMs
          /\ currentDurationMs' - DurationMs(last.id) < targetDurationMs]_vars

\* C36 witness: the target is exceeded, by accepts of both phases.
C36_Witness ==
  /\ currentDurationMs > targetDurationMs
  /\ \E i, j \in DOMAIN selectedTracks :
       /\ selectedTracks[i].sourcePlaylist = "playlist"
       /\ selectedTracks[j].sourcePlaylist = "Saved Tracks"

\* --- a scan started while calls of the scan before it are unsettled ------
SessionEarlierResolution ==
  \E id \in TrackIds, r \in ResolveOutcomes(aborted) : EarlierResolutionSettles(id, r)

SessionInit ==
  /\ MatchIdle
  /\ FlowIdle
  /\ PagingIdle
  /\ tempoRange = DefaultTempoRange
  /\ ScanIdle
  /\ OracleIdle
  /\ includeSaved = FALSE
  /\ SchedIdle
  /\ HttpIdle
  /\ aborted = FALSE

SessionNext ==
  \/ FindMatchingSongs \/ ScanPage \/ ScanNextPage \/ ScanResolution
  \/ ScanWaitElapsed \/ ScanStartOver \/ SessionEarlierResolution

SessionSpec == SessionInit /\ [][SessionNext]_vars

\* C37: scan sessions are isolated: when a call that belongs to the session
\* before the running one settles, the running session's displayed
\* selection (scannedTracks) and displayed duration (totalScannedDuration)
\* stay what they were.
C37_SessionsIsolated ==
  [][(\E id \in TrackIds : earlier'.resolving[id] < earlier.resolving[id]) =>
       /\ scannedTracks' = scannedTracks
       /\ totalScannedDuration' = totalScannedDuration]_vars

\* C38: if every started operation eventually settles, a call of
\* fetchTemposForTracksWithGemini that is waiting eventually returns, for
\* every input length, with or without an abort; and a call on an empty
\* input returns in the step of the call, with an empty map and nothing
\* started.
C38_EventuallyReturns ==
  /\ (schedPc = "waiting") ~> (schedPc = "returned")
  /\ [][(schedPc = "idle" /\ schedPc' # "idle" /\ tracks' = <<>>) =>
          /\ schedPc' = "returned"
          /\ tempos' = <<>>
          /\ activePromises' = {}
          /\ currentIndex' = 0
          /\ completed' = 0]_vars

\* C38 witness: a call on the longest input has returned with no abort,
\* after the operations of the initial batch and of the refills settled.
C38_Witness ==
  /\ schedPc = "returned"
  /\ ~aborted
  /\ Len(tracks) = MaxTracks
  /\ completed > maxConcurrent
  /\ Pending = {}

\* --- scan, review and creation, with the Logout button --------------------
ReviewInit ==
  /\ MatchIdle
  /\ FlowIdle
  /\ PagingIdle
  /\ tempoRange = DefaultTempoRange
  /\ ScanIdle
  /\ OracleIdle
  /\ includeSaved = FALSE
  /\ SchedIdle
  /\ HttpIdle
  /\ aborted = FALSE

ReviewNext ==
  \/ ScanStart \/ ScanPage \/ ScanNextPage \/ ScanResolution
  \/ ScanWaitElapsed \/ ScanStartOver \/ AppCreate \/ AppPlaylistPost
  \/ AppChunkPost \/ AppChunkSleep \/ AppCreateAnother \/ Logout

ReviewSpec == ReviewInit /\ [][ReviewNext]_vars

\* C39: whenever the step is review or creating, the final selection is
\* not empty; and a call of createPlaylistFromSelection made with an empty
\* selection or with no user logged in issues no request and changes
\* neither the step nor the selection: from such a state no step starts a
\* creation, enters the creating step or changes the final selection
\* through the creation.
C39_ReviewHasSelection ==
  /\ [](playlistCreationStep \in {"review", "creating"} =>
          Len(finalTrackSelection) > 0)
  /\ [][(~me \/ Len(finalTrackSelection) = 0) =>
          /\ ~(creation.pc # "posting" /\ creation'.pc = "posting")
          /\ ~(playlistCreationStep # "creating"
                /\ playlistCreationStep' = "creating")]_vars

\* C39 witness: the scan ended in review and the user logged out: the
\* selection is there and a call of createPlaylistFromSelection is refused.
C39_Witness ==
  /\ ~me
  /\ CreationRefused
  /\ playlistCreationStep = "review"
  /\ scanOutcome = "review"
  /\ Len(finalTrackSelection) > 0
  /\ creation.pc \in {"idle", "done"}

====
